---- MODULE Spec2Model ----
(***************************************************************************)
(* Model of cfdez11/js-vanilla-node.                                       *)
(*                                                                         *)
(* Part 1, ReactiveCore (src/.app/client/services/reactive.js): reactive   *)
(* cells, effect, computed and watch.  JavaScript runs the reactive code   *)
(* synchronously on one thread, so the model is an interpreter with an     *)
(* explicit call stack: a "wrapped" frame is one activation of the wrapped *)
(* closure of effect(), a "set" frame is the forEach of the proxy's set    *)
(* trap.  Top-level actions (stack empty) are the calls user code makes.   *)
(*                                                                         *)
(* Part 2, SuspenseStreamer (src/server/router.js): renderAndSendPage and  *)
(* handlePageRequest with one process position per request and one per     *)
(* fragment render.                                                        *)
(*                                                                         *)
(* Part 3, RenderCache (src/server/utils/cache.js): the in-memory cache    *)
(* the router uses and the cache on disk with its manual-stale flag.       *)
(***************************************************************************)
EXTENDS Integers, Sequences, FiniteSets, TLC

VARIABLES
  \* ---- ReactiveCore: program state
  cellVal,       \* cell -> target.value of the reactive proxy
  depsMap,       \* cell -> the Set of subscribers under key "value", in insertion order
  activeEffect,  \* the module-level activeEffect (NoEffect is null)
  eff,           \* the wrapped closures created so far, with their closure variables
  stack,         \* the JavaScript call stack, innermost frame first
  \* ---- ReactiveCore: observations (history only, never read by the program)
  hist,          \* per wrapped closure: runs, reads of the latest run, ...
  calls,         \* counts: top-level creations, top-level writes, set traps; threw
  \* ---- SuspenseStreamer
  req,           \* the position and locals of renderAndSendPage / handlePageRequest
  frag,          \* fragment -> state of its render promise
  res,           \* the http response: head written, chunks written, ended
  \* ---- RenderCache
  store,         \* the Map of the in-memory cache: key -> {html, generatedAt}
  disk,          \* the cache on disk: key -> {html, meta: {generatedAt, isStale}}
  now,           \* the wall clock in seconds; Date.now() is now * 1000
  \* ---- RenderCache: observations (history only, never read by the program)
  got,           \* the result of the latest get, empty after any other operation
  truth,         \* key -> when and with what it was last set, invalidated since
  \* ---- revalidation endpoint: the latest response, empty after any other
  \* cache operation (history only)
  reply,
  \* ---- ServerRenderer: the latest template compiled, its data and output
  view,
  \* ---- ClientRenderer: the trees a hydrated component has at its anchor
  mount,
  \* ---- server components (ssr.js): the regex cursor and the requests using it
  ssr,
  \* ---- route table: what the pages declare and what the build wrote
  routes,
  \* ---- navigation runtime: the controller, the navigations, the page mounted
  nav,
  \* ---- route component cache: the Map and the imports in flight
  routeCache,
  \* ---- hydration: the markers and the calls that reached them
  hyd,
  \* ---- layout renderer: the rendered layouts and the latest tree generated
  layouts

reactiveVars == <<cellVal, depsMap, activeEffect, eff, stack, hist, calls>>
cacheVars == <<store, disk, now, got, truth>>
clientVars == <<mount, ssr, routes, nav, routeCache, hyd, layouts>>
templateVars == <<reply, view, clientVars>>
streamVars == <<req, frag, res, cacheVars, templateVars>>
vars == <<cellVal, depsMap, activeEffect, eff, stack, hist, calls, req, frag, res,
          store, disk, now, got, truth, reply, view,
          mount, ssr, routes, nav, routeCache, hyd, layouts>>

(***************************************************************************)
(* Bounds                                                                  *)
(***************************************************************************)
MaxCalls == 4      \* top-level effect() / computed() / watch() calls plus top-level writes
MaxBoundaries == 2 \* suspense boundaries of the requested page
MaxRequests == 2   \* requests handled one after the other
MaxTime == 3       \* seconds the wall clock advances
MaxReads == 2      \* reads of a computed's .value between two writes of its dependencies

(***************************************************************************)
(* ReactiveCore: values, cells and effect bodies                           *)
(***************************************************************************)
NoEffect == 0

Cells == {"x", "y"}

\* undefined and two other primitives; only identity and truthiness matter
Values == {"undefined", "a", "b"}

Truthy(v) == v /= "undefined"

\* The functions handed to effect() in this model.  Each is a straight-line
\* sequence of statements <<op, arg1, arg2>>:
\*   read c        c.value
\*   ifread c d    if (c.value) d.value
\*   write c v     c.value = v
\*   effect f      effect(f)           (a nested computation, disposer dropped)
\*   throwif c     if (c.value) throw
Fn(f) ==
  CASE f = "readX"  -> << <<"read", "x", "">> >>
    [] f = "condXY" -> << <<"ifread", "x", "y">> >>
    [] f = "nestX"  -> << <<"read", "x", "">>, <<"effect", "readX", "">>, <<"read", "y", "">> >>
    [] f = "writeX" -> << <<"write", "x", "a">>, <<"read", "y", "">> >>
    [] f = "throwX" -> << <<"throwif", "x", "">> >>
    [] OTHER        -> << >>

\* the writes top-level code makes in the specification of plain effects: no
\* effect body looks at the value of y
EffectWrites == { <<"x", "undefined">>, <<"x", "a">>, <<"y", "a">> }

EffectFns == {"readX", "condXY", "nestX", "writeX", "throwX"}

\* The getters handed to computed(): the cells a getter reads, in order, and
\* the value it returns
GetterReads(g, cv) ==
  CASE g = "gx"    -> << "x" >>                                      \* () => x.value
    [] g = "gcond" -> IF Truthy(cv["x"]) THEN << "x", "y" >> ELSE << "x" >>
                                                    \* () => x.value ? y.value : "a"
    [] OTHER       -> << >>

GetterValue(g, cv) ==
  CASE g = "gx"    -> cv["x"]
    [] g = "gcond" -> IF Truthy(cv["x"]) THEN cv["y"] ELSE "a"
    [] OTHER       -> "undefined"

Getters == {"gx", "gcond"}

\* The statements of the function a wrapped closure runs
Body(e) ==
  CASE eff[e].fn = "assign" -> << <<"assign", eff[e].arg, "">> >>   \* value = getter()
    [] eff[e].fn = "runner" -> << <<"runner", eff[e].arg, "">> >>   \* watch's runner
    [] OTHER                -> Fn(eff[e].fn)

(***************************************************************************)
(* ReactiveCore: the proxy traps                                           *)
(***************************************************************************)
InSeq(e, s) == \E i \in DOMAIN s : s[i] = e

\* Set.prototype.add: no effect when the element is already in the set
SetAddAppend(s, e) == Append(s, e)

SetAdd(s, e) == IF InSeq(e, s) THEN s ELSE Append(s, e)

\* Set.prototype.delete
SetDelete(s, e) == SelectSeq(s, LAMBDA z : z /= e)

\* get trap, lines 98-107: depsMap after the tracked reads of cells cs (in order)
\* while ae is the active effect
RECURSIVE DepsAfter(_, _, _)
DepsAfter(dm, cs, ae) ==
  IF ae = NoEffect \/ cs = << >> THEN dm
  ELSE DepsAfter([dm EXCEPT ![Head(cs)] = SetAdd(@, ae)], Tail(cs), ae)

SeqRange(s) == { s[i] : i \in DOMAIN s }

\* get trap, lines 105-106: activeEffect.deps after the same reads.  The array
\* is only ever used by the disposer, which deletes the closure from each
\* element, so the model keeps the set of its elements.
EffAfter(ef, cs, ae) ==
  IF ae = NoEffect THEN ef
  ELSE [ef EXCEPT ![ae].deps = @ \cup SeqRange(cs)]

\* observation: the body of reader has read the cells cs
HistReads(h, cs, reader) ==
  IF reader = NoEffect THEN h
  ELSE [h EXCEPT ![reader].lastReads = @ \cup SeqRange(cs)]

\* observation at a set trap of cell c: a closure subscribed to c at that moment
\* sees one more write of a dependency (depWrites); a closure whose latest run
\* read c sees one more write of a cell it reads (readWrites)
HistWrite(h, c) ==
  [e \in DOMAIN h |->
     [h[e] EXCEPT
        !.depWrites = IF InSeq(e, depsMap[c]) THEN @ + 1 ELSE @,
        !.obs = IF InSeq(e, depsMap[c]) THEN << >> ELSE @,
        !.readWrites = IF c \in h[e].lastReads /\ ~h[e].disposed THEN @ + 1 ELSE @]]

(***************************************************************************)
(* ReactiveCore: frames                                                    *)
(***************************************************************************)
WrappedFrame(e, creation) == [k |-> "wrapped", e |-> e, pc |-> 1, c |-> "", cr |-> creation]

SetFrame(c) == [k |-> "set", e |-> NoEffect, pc |-> 1, c |-> c, cr |-> FALSE]

Top == Head(stack)

InBody == stack /= << >> /\ Top.k = "wrapped" /\ Top.pc <= Len(Body(Top.e))

Stmt == Body(Top.e)[Top.pc]

\* the stack with the running body moved to its next statement
Advanced == <<[Top EXCEPT !.pc = @ + 1]>> \o Tail(stack)

NewEff(f, arg, imm) ==
  [fn |-> f, arg |-> arg, imm |-> imm, deps |-> {}, value |-> "undefined", cleanupFn |-> 0]

NewHist(top) ==
  [runs |-> 1, lastReads |-> {}, top |-> top, returned |-> FALSE, disposed |-> FALSE,
   runsAtDispose |-> 0, getterCalls |-> 0, depWrites |-> 0, readWrites |-> 0,
   obs |-> << >>, evalLog |-> << >>, cbLog |-> << >>, events |-> << >>]

(***************************************************************************)
(* ReactiveCore: top-level calls (user code, nothing on the stack)         *)
(***************************************************************************)
Idle == stack = << >>

\* one more activation of wrapped closure e is on the stack: line 147
Activated(h, e) == [h EXCEPT ![e].runs = @ + 1, ![e].lastReads = {}]

\* effect(fn), lines 145-153: create wrapped and call it
CreateEffect(f) ==
  /\ Idle
  /\ calls.creates + calls.writes < MaxCalls
  /\ LET e == Len(eff) + 1 IN
       /\ eff' = Append(eff, NewEff(f, "", FALSE))
       /\ hist' = Append(hist, NewHist(TRUE))
       /\ stack' = << WrappedFrame(e, TRUE) >>
       /\ activeEffect' = e
  /\ calls' = [calls EXCEPT !.creates = @ + 1]
  /\ UNCHANGED <<cellVal, depsMap, streamVars>>

\* c.value = v at top level, lines 111-118: store, then start the forEach
Write(c, v) ==
  /\ Idle
  /\ calls.creates + calls.writes < MaxCalls
  /\ cellVal' = [cellVal EXCEPT ![c] = v]
  /\ stack' = << SetFrame(c) >>
  /\ hist' = HistWrite(hist, c)
  /\ calls' = [calls EXCEPT !.writes = @ + 1, !.sets = @ + 1]
  /\ UNCHANGED <<depsMap, activeEffect, eff, streamVars>>

\* c.value read at top level, lines 89-110
ReadCell(c) ==
  /\ Idle
  /\ depsMap' = DepsAfter(depsMap, <<c>>, activeEffect)
  /\ eff' = EffAfter(eff, <<c>>, activeEffect)
  /\ UNCHANGED <<cellVal, activeEffect, stack, hist, calls, streamVars>>

\* the disposer effect() returned, lines 156-160
Dispose(e) ==
  /\ Idle
  /\ e \in DOMAIN eff
  /\ hist[e].top /\ hist[e].returned /\ ~hist[e].disposed
  /\ depsMap' = [c \in Cells |->
                   IF c \in eff[e].deps THEN SetDelete(depsMap[c], e) ELSE depsMap[c]]
  /\ hist' = [hist EXCEPT ![e].disposed = TRUE, ![e].runsAtDispose = hist[e].runs]
  /\ UNCHANGED <<cellVal, activeEffect, eff, stack, calls, streamVars>>

(***************************************************************************)
(* ReactiveCore: one step of the code on the stack                         *)
(***************************************************************************)
\* statement c.value in a body
StepRead ==
  /\ InBody /\ Stmt[1] = "read"
  /\ LET cs == << Stmt[2] >> IN
       /\ depsMap' = DepsAfter(depsMap, cs, activeEffect)
       /\ eff' = EffAfter(eff, cs, activeEffect)
       /\ hist' = HistReads(hist, cs, Top.e)
  /\ stack' = Advanced
  /\ UNCHANGED <<cellVal, activeEffect, calls, streamVars>>

\* statement if (c.value) d.value in a body
StepIfRead ==
  /\ InBody /\ Stmt[1] = "ifread"
  /\ LET cs == IF Truthy(cellVal[Stmt[2]]) THEN << Stmt[2], Stmt[3] >> ELSE << Stmt[2] >> IN
       /\ depsMap' = DepsAfter(depsMap, cs, activeEffect)
       /\ eff' = EffAfter(eff, cs, activeEffect)
       /\ hist' = HistReads(hist, cs, Top.e)
  /\ stack' = Advanced
  /\ UNCHANGED <<cellVal, activeEffect, calls, streamVars>>

\* statement c.value = v in a body: the set trap runs before the body continues
StepWrite ==
  /\ InBody /\ Stmt[1] = "write"
  /\ cellVal' = [cellVal EXCEPT ![Stmt[2]] = Stmt[3]]
  /\ stack' = << SetFrame(Stmt[2]) >> \o Advanced
  /\ hist' = HistWrite(hist, Stmt[2])
  /\ calls' = [calls EXCEPT !.sets = @ + 1]
  /\ UNCHANGED <<depsMap, activeEffect, eff, streamVars>>

\* statement effect(f) in a body: a nested computation
StepEffect ==
  /\ InBody /\ Stmt[1] = "effect"
  /\ LET e == Len(eff) + 1 IN
       /\ eff' = Append(eff, NewEff(Stmt[2], "", FALSE))
       /\ hist' = Append(hist, NewHist(FALSE))
       /\ stack' = << WrappedFrame(e, TRUE) >> \o Advanced
       /\ activeEffect' = e
  /\ UNCHANGED <<cellVal, depsMap, calls, streamVars>>

\* statement if (c.value) throw ... in a body.  Nothing in reactive.js catches:
\* the exception unwinds every frame up to the top-level caller.
StepThrowIf ==
  /\ InBody /\ Stmt[1] = "throwif"
  /\ LET cs == << Stmt[2] >> IN
       /\ depsMap' = DepsAfter(depsMap, cs, activeEffect)
       /\ eff' = EffAfter(eff, cs, activeEffect)
       /\ hist' = HistReads(hist, cs, Top.e)
  /\ IF Truthy(cellVal[Stmt[2]])
     THEN /\ stack' = << >>
          /\ calls' = [calls EXCEPT !.threw = TRUE]
     ELSE /\ stack' = Advanced
          /\ calls' = calls
  /\ UNCHANGED <<cellVal, activeEffect, streamVars>>

\* fn() has returned: line 149, then wrapped returns
StepReturn ==
  /\ stack /= << >> /\ Top.k = "wrapped" /\ Top.pc > Len(Body(Top.e))
  /\ activeEffect' = NoEffect
  /\ stack' = Tail(stack)
  /\ hist' = IF Top.cr THEN [hist EXCEPT ![Top.e].returned = TRUE] ELSE hist
  /\ UNCHANGED <<cellVal, depsMap, eff, calls, streamVars>>

\* set trap, line 117: forEach calls the next subscriber.  A Set's forEach
\* visits, in insertion order, also the elements added while it runs.
StepNotify ==
  /\ stack /= << >> /\ Top.k = "set" /\ Top.pc <= Len(depsMap[Top.c])
  /\ LET e == depsMap[Top.c][Top.pc] IN
       /\ stack' = << WrappedFrame(e, FALSE) >> \o Advanced
       /\ activeEffect' = e
       /\ hist' = Activated(hist, e)
  /\ UNCHANGED <<cellVal, depsMap, eff, calls, streamVars>>

\* set trap, line 120: every subscriber was called, the write returns
StepSetReturn ==
  /\ stack /= << >> /\ Top.k = "set" /\ Top.pc > Len(depsMap[Top.c])
  /\ stack' = Tail(stack)
  /\ UNCHANGED <<cellVal, depsMap, activeEffect, eff, hist, calls, streamVars>>

(***************************************************************************)
(* Specification of ReactiveCore with plain effects                        *)
(***************************************************************************)
(***************************************************************************)
(* RenderCache (src/server/utils/cache.js).  The file holds the in-memory  *)
(* cache (a Map, used by src/server/router.js) and the cache on disk with  *)
(* its metadata.  Markup is a sequence of chunks and never the empty       *)
(* string.  A lookup result is {hit: FALSE} for {html: null}.              *)
(***************************************************************************)
Never == -1         \* getRevalidateSeconds("never"): the entry never ages

DateNow == now * 1000

\* Map.prototype.set
MapSet(m, k, e) == [x \in DOMAIN m \cup {k} |-> IF x = k THEN e ELSE m[x]]

\* in-memory getCachedComponentHtml
MemGet(componentPath, revalidateSeconds) ==
  IF componentPath \notin DOMAIN store
  THEN [hit |-> FALSE]
  ELSE [hit |-> TRUE, html |-> store[componentPath].html,
        isStale |-> DateNow - store[componentPath].generatedAt
                      > revalidateSeconds * 1000]

\* a set that keeps the timestamp of the entry it overwrites
MemSetKeepsTime(componentPath, html) ==
  MapSet(store, componentPath,
         [html |-> html,
          generatedAt |-> IF componentPath \in DOMAIN store
                          THEN store[componentPath].generatedAt ELSE DateNow])

\* a set that leaves an entry that is already there alone: the first write wins
MemSetFirstWins(componentPath, html) ==
  IF componentPath \in DOMAIN store THEN store
  ELSE MapSet(store, componentPath, [html |-> html, generatedAt |-> DateNow])

\* in-memory setCachedComponentHtml
MemSet(componentPath, html) ==
  MapSet(store, componentPath, [html |-> html, generatedAt |-> DateNow])

\* files.js, getComponentHtmlDisk: the stored html and its metadata
GetComponentHtmlDisk(componentPath) ==
  IF componentPath \notin DOMAIN disk
  THEN [hit |-> FALSE]
  ELSE [hit |-> TRUE, html |-> disk[componentPath].html,
        meta |-> disk[componentPath].meta]

\* files.js, saveComponentHtmlDisk: html and fresh metadata, as one unit
SaveComponentHtmlDisk(componentPath, html) ==
  MapSet(disk, componentPath,
         [html |-> html, meta |-> [generatedAt |-> DateNow, isStale |-> FALSE]])

\* files.js, markComponentHtmlStale: only the flag of the metadata changes
MarkComponentHtmlStale(componentPath) ==
  [disk EXCEPT ![componentPath].meta.isStale = TRUE]

\* a get that does not look at the manual-stale flag
DiskGetByTimeOnly(componentPath, revalidateSeconds) ==
  LET r == GetComponentHtmlDisk(componentPath) IN
  IF ~r.hit THEN [hit |-> FALSE]
  ELSE [hit |-> TRUE, html |-> r.html,
        isStale |-> revalidateSeconds /= Never
                    /\ DateNow - r.meta.generatedAt > revalidateSeconds * 1000]

\* getCachedComponentHtml over the disk
DiskGet(componentPath, revalidateSeconds) ==
  LET r == GetComponentHtmlDisk(componentPath)
      staleByTime == IF revalidateSeconds /= Never
                     THEN DateNow - r.meta.generatedAt > revalidateSeconds * 1000
                     ELSE FALSE
  IN IF ~r.hit THEN [hit |-> FALSE]
     ELSE [hit |-> TRUE, html |-> r.html,
           isStale |-> r.meta.isStale = TRUE \/ staleByTime]

\* the age of the entry of key k exceeds the window w
Aged(k, w) == w /= Never /\ (now - truth[k].at) * 1000 > w * 1000

CacheKeys == {"/a", "/b"}
Markups == { << <<"document", d, "">> >> : d \in 1..2 }
Windows == {Never, 0, 1, 2}

CacheEmpty ==
  /\ store = << >>
  /\ disk = << >>
  /\ now = 0
  /\ got = << >>
  /\ truth = << >>

\* a cache operation leaves the requests alone and drops the latest response
StreamStays == reply' = << >> /\ UNCHANGED <<req, frag, res, view, clientVars>>

\* set(key, markup) on both caches
CacheSet(k, h) ==
  /\ store' = MemSet(k, h)
  /\ disk' = SaveComponentHtmlDisk(k, h)
  /\ truth' = MapSet(truth, k, [at |-> now, html |-> h, inv |-> FALSE,
                                cleared |-> k \in DOMAIN truth /\ truth[k].inv])
  /\ got' = << >>
  /\ UNCHANGED now
  /\ StreamStays /\ UNCHANGED reactiveVars

\* revalidateCachedComponentHtml(key); the in-memory cache has no such call
CacheInvalidate(k) ==
  /\ k \in DOMAIN disk
  /\ disk' = MarkComponentHtmlStale(k)
  /\ truth' = [truth EXCEPT ![k].inv = TRUE]
  /\ got' = << >>
  /\ UNCHANGED <<store, now>>
  /\ StreamStays /\ UNCHANGED reactiveVars

\* the responses of the endpoint: res.status(...).json(...)
Paths == CacheKeys \cup {""}

\* an endpoint that answers 200 also when the invalidation threw
RevalidatePathSwallows(componentPath, throws) ==
  LET missing == componentPath = ""
      marks == ~missing /\ ~throws /\ componentPath \in DOMAIN disk
  IN /\ disk' = IF marks THEN MarkComponentHtmlStale(componentPath) ELSE disk
     /\ truth' = IF marks THEN [truth EXCEPT ![componentPath].inv = TRUE] ELSE truth
     /\ got' = << >>
     /\ UNCHANGED <<store, now, req, frag, res, view, clientVars>>
     /\ reply' = << [status |-> IF missing THEN 400 ELSE 200,
                     path |-> componentPath, threw |-> ~missing /\ throws,
                     present |-> componentPath \in DOMAIN disk,
                     flagged |-> componentPath \in DOMAIN disk'
                                 /\ disk'[componentPath].meta.isStale,
                     others |-> \E k \in DOMAIN disk \ {componentPath} :
                                  disk'[k] /= disk[k],
                     wrote |-> \/ store' /= store
                               \/ DOMAIN disk' /= DOMAIN disk
                               \/ \E k \in DOMAIN disk :
                                    disk'[k].html /= disk[k].html] >>
     /\ UNCHANGED reactiveVars

\* revalidatePath(req, res): req.query.path is componentPath, "" when the query
\* has none; throws is whether revalidateCachedComponentHtml rejects
RevalidatePath(componentPath, throws) ==
  LET missing == componentPath = ""
      marks == ~missing /\ ~throws /\ componentPath \in DOMAIN disk
  IN /\ disk' = IF marks THEN MarkComponentHtmlStale(componentPath) ELSE disk
     /\ truth' = IF marks THEN [truth EXCEPT ![componentPath].inv = TRUE] ELSE truth
     /\ got' = << >>
     /\ UNCHANGED <<store, now, req, frag, res, view, clientVars>>
     /\ reply' = << [status |-> IF missing THEN 400
                                ELSE IF throws THEN 500 ELSE 200,
                     path |-> componentPath, threw |-> ~missing /\ throws,
                     present |-> componentPath \in DOMAIN disk,
                     flagged |-> componentPath \in DOMAIN disk'
                                 /\ disk'[componentPath].meta.isStale,
                     others |-> \E k \in DOMAIN disk \ {componentPath} :
                                  disk'[k] /= disk[k],
                     wrote |-> \/ store' /= store
                               \/ DOMAIN disk' /= DOMAIN disk
                               \/ \E k \in DOMAIN disk :
                                    disk'[k].html /= disk[k].html] >>
     /\ UNCHANGED reactiveVars

\* get(key, window) on both caches; the in-memory cache has no window "never"
CacheGet(k, w) ==
  /\ got' = << [key |-> k, window |-> w,
                mem |-> IF w = Never THEN [hit |-> FALSE] ELSE MemGet(k, w),
                disk |-> DiskGet(k, w)] >>
  /\ UNCHANGED <<store, disk, now, truth>>
  /\ StreamStays /\ UNCHANGED reactiveVars

Tick ==
  /\ now < MaxTime
  /\ now' = now + 1
  /\ got' = << >>
  /\ UNCHANGED <<store, disk, truth>>
  /\ StreamStays /\ UNCHANGED reactiveVars

NextCache ==
  \/ \E k \in CacheKeys, h \in Markups : CacheSet(k, h)
  \/ \E k \in CacheKeys : CacheInvalidate(k)
  \/ \E k \in CacheKeys, w \in Windows : CacheGet(k, w)
  \/ \E p \in Paths, throws \in BOOLEAN : RevalidatePath(p, throws)
  \/ Tick

StreamIdle ==
  /\ req = [pc |-> "idle", n |-> 0, url |-> "", pageName |-> "", statusCode |-> 0,
            htmlChunks |-> << >>, abortedStream |-> FALSE, errorStream |-> FALSE,
            listening |-> FALSE, page |-> << >>, shell |-> << >>, susp |-> << >>,
            completed |-> << >>, pageThrew |-> FALSE, errorThrew |-> FALSE,
            renders |-> 0, saved |-> FALSE, fromCache |-> FALSE]
  /\ frag = << >>
  /\ res = [head |-> FALSE, status |-> 0, chunks |-> << >>, ended |-> FALSE,
            closed |-> FALSE]

ReactiveInit ==
  /\ cellVal = [c \in Cells |-> "undefined"]      \* reactive(undefined)
  /\ depsMap = [c \in Cells |-> << >>]
  /\ activeEffect = NoEffect
  /\ eff = << >>
  /\ stack = << >>
  /\ hist = << >>
  /\ calls = [creates |-> 0, writes |-> 0, sets |-> 0, threw |-> FALSE]

TemplateIdle == reply = << >> /\ view = << >>

\* nothing is hydrated, requested, built, navigated, imported or laid out yet
ClientIdle ==
  /\ mount = << >> /\ ssr = << >> /\ routes = << >> /\ nav = << >>
  /\ routeCache = << >> /\ hyd = << >> /\ layouts = << >>

Init == ReactiveInit /\ StreamIdle /\ CacheEmpty /\ TemplateIdle /\ ClientIdle

SpecCache == Init /\ [][NextCache]_vars

Next ==
  \/ \E f \in EffectFns : CreateEffect(f)
  \/ \E w \in EffectWrites : Write(w[1], w[2])
  \/ \E c \in Cells : ReadCell(c)
  \/ \E e \in DOMAIN eff : Dispose(e)
  \/ StepRead
  \/ StepIfRead
  \/ StepWrite
  \/ StepEffect
  \/ StepThrowIf
  \/ StepReturn
  \/ StepNotify
  \/ StepSetReturn

Spec == Init /\ [][Next]_vars

(***************************************************************************)
(* ReactiveCore: computed, lines 176-188                                   *)
(***************************************************************************)
\* computed(getter): effect(() => { value = getter() }), the disposer dropped
CreateComputed(g) ==
  /\ Idle
  /\ calls.creates + calls.writes < MaxCalls
  /\ LET e == Len(eff) + 1 IN
       /\ eff' = Append(eff, NewEff("assign", g, FALSE))
       /\ hist' = Append(hist, NewHist(FALSE))
       /\ stack' = << WrappedFrame(e, TRUE) >>
       /\ activeEffect' = e
  /\ calls' = [calls EXCEPT !.creates = @ + 1]
  /\ UNCHANGED <<cellVal, depsMap, streamVars>>

\* statement value = getter() of the computed's effect, line 180
StepAssign ==
  /\ InBody /\ Stmt[1] = "assign"
  /\ LET cs == GetterReads(Stmt[2], cellVal) IN
       /\ depsMap' = DepsAfter(depsMap, cs, activeEffect)
       /\ eff' = [EffAfter(eff, cs, activeEffect) EXCEPT
                    ![Top.e].value = GetterValue(Stmt[2], cellVal)]
       /\ hist' = [HistReads(hist, cs, Top.e) EXCEPT ![Top.e].getterCalls = @ + 1]
  /\ stack' = Advanced
  /\ UNCHANGED <<cellVal, activeEffect, calls, streamVars>>

\* a variant that evaluates the getter on every read instead of caching
ReadComputedLazy(e) ==
  /\ Idle
  /\ e \in DOMAIN eff /\ eff[e].fn = "assign" /\ hist[e].returned
  /\ Len(hist[e].obs) < MaxReads
  /\ eff' = [eff EXCEPT ![e].value = GetterValue(eff[e].arg, cellVal)]
  /\ hist' = [hist EXCEPT ![e].obs = Append(@, GetterValue(eff[e].arg, cellVal)),
                          ![e].getterCalls = @ + 1]
  /\ UNCHANGED <<cellVal, depsMap, activeEffect, stack, calls, streamVars>>

\* get value() of the object computed returned, lines 184-186; the value read
\* is observed in obs
ReadComputed(e) ==
  /\ Idle
  /\ e \in DOMAIN eff /\ eff[e].fn = "assign" /\ hist[e].returned
  /\ Len(hist[e].obs) < MaxReads
  /\ hist' = [hist EXCEPT ![e].obs = Append(@, eff[e].value)]
  /\ UNCHANGED <<cellVal, depsMap, activeEffect, eff, stack, calls, streamVars>>

ComputedWrites == { <<c, v>> : c \in Cells, v \in Values }

NextComputed ==
  \/ \E g \in Getters : CreateComputed(g)
  \/ \E w \in ComputedWrites : Write(w[1], w[2])
  \/ \E e \in DOMAIN eff : ReadComputed(e)
  \/ StepAssign
  \/ StepReturn
  \/ StepNotify
  \/ StepSetReturn

SpecComputed == Init /\ [][NextComputed]_vars

(***************************************************************************)
(* ReactiveCore: watch, lines 198-230                                      *)
(***************************************************************************)
\* watch(() => c.value, callback, { immediate: imm }): effect(runner)
CreateWatch(c, imm) ==
  /\ Idle
  /\ calls.creates + calls.writes < MaxCalls
  /\ LET e == Len(eff) + 1 IN
       /\ eff' = Append(eff, NewEff("runner", c, imm))
       /\ hist' = Append(hist, NewHist(FALSE))
       /\ stack' = << WrappedFrame(e, TRUE) >>
       /\ activeEffect' = e
  /\ calls' = [calls EXCEPT !.creates = @ + 1]
  /\ UNCHANGED <<cellVal, depsMap, streamVars>>

\* line 210: the run is taken for the first one
FirstRunSkipped(oldValue, imm) == oldValue = "undefined" /\ ~imm

\* line 216: Object.is on primitives
ObjectIs(a, b) == a = b

\* a variant that keeps the cleanup function after calling it
CleanupKept(cf) == cf

\* lines 220-221: cleanupFn after it has been called
CleanupCalled(cf) == 0

\* runner, lines 206-226, with source = () => c.value.  The callback of the
\* model records its arguments and may register a cleanup through onCleanup
\* (reg); the cleanup registered by the k-th invocation is function k.
StepRunner ==
  /\ InBody /\ Stmt[1] = "runner"
  /\ LET e == Top.e
         w == eff[e]
         cs == << Stmt[2] >>
         newValue == cellVal[Stmt[2]]
         seen == [HistReads(hist, cs, e) EXCEPT ![e].evalLog = Append(@, newValue)]
         k == Len(hist[e].cbLog) + 1
     IN
       /\ depsMap' = DepsAfter(depsMap, cs, activeEffect)
       /\ IF FirstRunSkipped(w.value, w.imm)
          THEN /\ eff' = [EffAfter(eff, cs, activeEffect) EXCEPT ![e].value = newValue]
               /\ hist' = seen
          ELSE IF ObjectIs(newValue, w.value)
          THEN /\ eff' = EffAfter(eff, cs, activeEffect)
               /\ hist' = seen
          ELSE \E reg \in BOOLEAN :
               /\ eff' = [EffAfter(eff, cs, activeEffect) EXCEPT
                            ![e].value = newValue,
                            ![e].cleanupFn = IF reg THEN k
                                             ELSE IF w.cleanupFn /= 0
                                                  THEN CleanupCalled(w.cleanupFn)
                                                  ELSE w.cleanupFn]
               /\ hist' = [seen EXCEPT
                            ![e].cbLog = Append(@, <<Len(seen[e].evalLog), newValue, w.value>>),
                            ![e].events = @ \o (IF w.cleanupFn /= 0
                                                THEN << <<"cleanup", w.cleanupFn, FALSE>> >>
                                                ELSE << >>)
                                            \o << <<"callback", k, reg>> >>]
  /\ stack' = Advanced
  /\ UNCHANGED <<cellVal, activeEffect, calls, streamVars>>

WatchWrites == { <<"x", v>> : v \in Values }

NextWatch ==
  \/ \E imm \in BOOLEAN : CreateWatch("x", imm)
  \/ \E w \in WatchWrites : Write(w[1], w[2])
  \/ StepRunner
  \/ StepReturn
  \/ StepNotify
  \/ StepSetReturn

SpecWatch == Init /\ [][NextWatch]_vars

(***************************************************************************)
(* ReactiveCore: what the claims speak about                               *)
(***************************************************************************)
\* the cells whose subscriber set holds closure e
Subscribed(e) == { c \in Cells : InSeq(e, depsMap[c]) }

Live(e) == ~hist[e].disposed

\* the computation whose body is executing: the innermost wrapped frame
RECURSIVE RunningBody(_)
RunningBody(st) ==
  IF st = << >> THEN NoEffect
  ELSE IF Head(st).k = "wrapped" THEN Head(st).e
  ELSE RunningBody(Tail(st))

RECURSIVE SumRuns(_)
SumRuns(h) == IF h = << >> THEN 0 ELSE Head(h).runs + SumRuns(Tail(h))

\* C1: once a top-level call has returned normally, every live effect has run
\* once at creation and once more per write of a cell its latest run read
\* (1 + n runs after n writes).
C1_OneRunPerWrite ==
  (Idle /\ ~calls.threw) =>
     \A e \in DOMAIN hist : Live(e) => hist[e].runs = 1 + hist[e].readWrites

\* C2: after a run, a computation is subscribed to no cell that its most
\* recent run did not read (no subscription of an earlier run survives).
C2_NoStaleSubscription ==
  (Idle /\ ~calls.threw) =>
     \A e \in DOMAIN hist : Live(e) => Subscribed(e) \subseteq hist[e].lastReads

\* C3: every tracked read performed by the body of computation A has
\* registered A as subscriber of the cell, also the reads A performs after a
\* nested or re-entered computation has finished.
C3_ReadsRegisterReader ==
  \A e \in DOMAIN hist : Live(e) => hist[e].lastReads \subseteq Subscribed(e)

\* C4: activeEffect designates the computation whose body is executing, and is
\* null when no body is executing, also after a body has thrown.
C4_PointerIsRunningBody == activeEffect = RunningBody(stack)

\* C5: fn has run exactly once when effect(fn) returns, and no run of fn
\* follows the call of its disposer.
C5_DisposedNeverRuns ==
  /\ \A i \in DOMAIN stack : stack[i].cr => hist[stack[i].e].runs = 1
  /\ \A e \in DOMAIN hist : hist[e].disposed => hist[e].runs = hist[e].runsAtDispose

\* C6: the number of computation runs is bounded: a set trap runs each
\* computation that exists when it returns at most once, so after s set traps
\* the n computations created so far have run at most n * (1 + s) times; no
\* write keeps running computations for ever.
C6_RunsBounded == SumRuns(hist) <= Len(eff) * (1 + calls.sets)

\* C6 witness: a computation is being created by a body that was re-entered
\* by the forEach of a write that another body made
C6_Witness ==
  \E i \in DOMAIN stack :
     /\ i + 3 <= Len(stack)
     /\ stack[i].k = "wrapped" /\ stack[i].cr
     /\ stack[i + 1].k = "wrapped"
     /\ stack[i + 2].k = "set"
     /\ stack[i + 3].k = "wrapped"

IsComputed(e) == eff[e].fn = "assign"

IsWatch(e) == eff[e].fn = "runner"

RECURSIVE ExpectedCalls(_, _, _)
ExpectedCalls(ev, imm, n) ==
  IF n = 0 THEN << >>
  ELSE ExpectedCalls(ev, imm, n - 1) \o
       (IF n = 1
        THEN (IF imm THEN << <<1, ev[1], "undefined">> >> ELSE << >>)
        ELSE (IF ev[n] /= ev[n - 1] THEN << <<n, ev[n], ev[n - 1]>> >> ELSE << >>))

\* C8: the callback is invoked by the first evaluation exactly when immediate
\* is set, and by a later evaluation exactly when the value differs from the
\* previous one, with (new, old), whatever the values are.
C8_WatchCallbacks ==
  Idle =>
    \A e \in DOMAIN eff : IsWatch(e) =>
       hist[e].cbLog = ExpectedCalls(hist[e].evalLog, eff[e].imm, Len(hist[e].evalLog))

\* C9: the cleanup registered by callback invocation k is called once, after
\* invocation k and directly before invocation k + 1, and never again; and
\* invocation k + 1 does not happen without it.
C9_CleanupOnceBeforeNext ==
  \A e \in DOMAIN eff : IsWatch(e) =>
    LET ev == hist[e].events IN
      \A i \in DOMAIN ev :
        /\ ev[i][1] = "cleanup" =>
             /\ \E j \in 1..(i - 1) : ev[j] = <<"callback", ev[i][2], TRUE>>
             /\ i + 1 \in DOMAIN ev
             /\ ev[i + 1][1] = "callback" /\ ev[i + 1][2] = ev[i][2] + 1
             /\ \A j \in DOMAIN ev : (j /= i /\ ev[j][1] = "cleanup") => ev[j][2] /= ev[i][2]
        /\ (ev[i][1] = "callback" /\ ev[i][3]) =>
             \A j \in DOMAIN ev :
                (ev[j][1] = "callback" /\ ev[j][2] = ev[i][2] + 1) =>
                   ev[j - 1] = <<"cleanup", ev[i][2], FALSE>>

\* C9 witness: a cleanup was called before invocation k + 1, which registered
\* none, and invocation k + 2 has taken place
C9_Witness ==
  \E e \in DOMAIN eff :
    /\ IsWatch(e)
    /\ \E i \in DOMAIN hist[e].events :
         /\ i + 2 \in DOMAIN hist[e].events
         /\ hist[e].events[i][1] = "cleanup"
         /\ hist[e].events[i + 1][1] = "callback" /\ ~hist[e].events[i + 1][3]
         /\ hist[e].events[i + 2][1] = "callback"

(***************************************************************************)
(* SuspenseStreamer: renderAndSendPage and handlePageRequest of            *)
(* src/server/router.js, with extractSuspenseBoundaries of                 *)
(* src/server/utils/streaming.js.  Requests are handled one after the      *)
(* other; req.pc is the position of the async function of the current      *)
(* request, frag[i] the position of the async callback that renders        *)
(* suspense component i.  Markup is a sequence of chunks <<tag, id, text>>.*)
(***************************************************************************)
ReactiveIdle == UNCHANGED <<reactiveVars, templateVars>>

\* ---- the page and its suspense boundaries
Contents == {"p", "q"}                       \* deferred contents

SuspenseBlock(c) == <<"suspense", 0, c>>     \* <suspense fallback=..>c</suspense>
Placeholder(id) == <<"div", id, "">>         \* <div id="suspense-id">fallback</div>

\* the compiled pages: up to MaxBoundaries suspense blocks, equal ones included
Pages ==
  UNION { [1..k -> {SuspenseBlock(c) : c \in Contents}] : k \in 0..MaxBoundaries }

\* String.prototype.replace with a string pattern: the first occurrence only
ReplaceFirst(html, fullMatch, replacement) ==
  LET at == {i \in DOMAIN html : html[i] = fullMatch} IN
  IF at = {} THEN html
  ELSE [html EXCEPT ![CHOOSE i \in at : \A j \in at : i <= j] = replacement]

\* an id generator that forgets to increment
SameSuspenseId(suspenseId) == suspenseId

\* suspenseId++
NextSuspenseId(suspenseId) == suspenseId + 1

\* extractSuspenseBoundaries, second pass: one id, one suspense component and
\* one replaced block per collected match
RECURSIVE ProcessEach(_, _, _, _, _)
ProcessEach(replacements, k, suspenseId, initialHtml, suspenseComponents) ==
  IF k > Len(replacements)
  THEN [initialHtml |-> initialHtml, suspenseComponents |-> suspenseComponents]
  ELSE ProcessEach(replacements, k + 1, NextSuspenseId(suspenseId),
                   ReplaceFirst(initialHtml, replacements[k], Placeholder(suspenseId)),
                   Append(suspenseComponents,
                          [id |-> suspenseId, content |-> replacements[k][3]]))

\* extractSuspenseBoundaries: every block of a page is a match of suspenseRegex
ExtractSuspenseBoundaries(html) == ProcessEach(html, 1, 0, html, << >>)

\* ---- the routes
Urls == {"/a", "/b"}

\* route.meta?.revalidateSeconds ?? 0, in seconds: "/a" is cached, "/b" is not
RevalidateSecondsOf(u) == IF u = "/a" THEN 1 ELSE 0

IsISR(u) == RevalidateSecondsOf(u) > 0

\* getPagePath(route.path.slice(1))
PagePathOf(u) == IF u = "/a" THEN "pages/a/page.html" ELSE "pages/b/page.html"

\* ---- the chunks of the response
Shell == <<"shell", 0, "">>                  \* html before </body>
Closing == <<"closing", 0, "">>              \* "</body></html>"
\* generateReplacementContent(suspenseComponent.id, renderedContent)
Replacement(i) == <<"replacement", req.susp[i].id, req.susp[i].content>>
\* generateReplacementContent(suspenseComponent.id, error div)
ErrorReplacement(i) == <<"error", req.susp[i].id, "">>
Document == <<"document", 0, "">>            \* a page without suspense, whole
ErrorDocument == <<"errorDocument", 0, "">>  \* the rendered error page
FallbackDocument == <<"fallback", 0, "">>    \* FALLBACK_ERROR_HTML

\* the catch block of the fragment callback, lines 271-278, names the response
\* res; renderAndSendPage has no binding res (its parameter is context) and the
\* module declares none, so evaluating res.write throws a ReferenceError
CatchBlockResBound == FALSE

\* sendResponse, lines 104-107: writeHead throws once the head has been sent
WriteHeadThrows == res.head

\* sendResponse when writeHead does not throw
SendResponse(r, statusCode, html) ==
  [r EXCEPT !.head = TRUE, !.status = statusCode, !.chunks = @ \o html,
            !.ended = TRUE]

NewRequest(n, u) ==
  [pc |-> "idle", n |-> n, url |-> u, pageName |-> "", statusCode |-> 0,
   htmlChunks |-> << >>, abortedStream |-> FALSE, errorStream |-> FALSE,
   listening |-> FALSE, page |-> << >>, shell |-> << >>, susp |-> << >>,
   \* history
   completed |-> << >>, pageThrew |-> FALSE, errorThrew |-> FALSE,
   renders |-> 0, saved |-> FALSE, fromCache |-> FALSE]

NewResponse ==
  [head |-> FALSE, status |-> 0, chunks |-> << >>, ended |-> FALSE,
   closed |-> FALSE]

\* the history of the cache: the request finished a full render of its url
\* with no fragment error and with the client still connected
FullRender(html) ==
  IF IsISR(req.url) /\ ~res.closed
  THEN MapSet(truth, req.url,
              [at |-> now, html |-> html, inv |-> FALSE, cleared |-> FALSE])
  ELSE truth

\* renderAndSendPage, lines 218-237, up to the await of the page render: the
\* cache is looked up under the request url; a fresh hit is sent at once
Enter(r, rs, pageName, statusCode) ==
  LET c == MemGet(r.url, RevalidateSecondsOf(r.url))
      served == IsISR(r.url) /\ c.hit /\ ~c.isStale
  IN IF served /\ ~rs.head
     THEN /\ req' = [r EXCEPT !.pc = "done", !.pageName = pageName,
                              !.statusCode = statusCode, !.fromCache = TRUE]
          /\ res' = SendResponse(rs, statusCode, c.html)
     ELSE IF served
     THEN \* writeHead throws in the error call, and again in the fallback
          /\ req' = [r EXCEPT !.pc = "rejected"]
          /\ res' = rs
     ELSE /\ req' = [r EXCEPT !.pc = IF pageName = "error" THEN "errorPage"
                                                             ELSE "render",
                              !.pageName = pageName, !.statusCode = statusCode,
                              !.renders = @ + 1]
          /\ res' = rs

\* handlePageRequest, lines 298-308: a request for url u arrives
HandlePageRequest(u) ==
  /\ req.pc \in {"idle", "done", "rejected"}
  /\ req.n < MaxRequests
  /\ Enter(NewRequest(req.n + 1, u), NewResponse, "page", 200)
  /\ frag' = << >>
  /\ UNCHANGED cacheVars
  /\ ReactiveIdle

\* renderAndSendPage, lines 236-256, for a page with suspense components:
\* the page renders, the close listener is registered, the head and the shell
\* are written, every fragment callback runs up to its await, and the function
\* awaits Promise.all
StartStream(p) ==
  /\ req.pc = "render"
  /\ Len(p) >= 1
  /\ LET x == ExtractSuspenseBoundaries(p) IN
       req' = [req EXCEPT !.pc = "awaitAll", !.htmlChunks = Append(@, Shell),
                          !.listening = TRUE, !.page = p,
                          !.shell = x.initialHtml, !.susp = x.suspenseComponents]
  /\ res' = [res EXCEPT !.head = TRUE, !.status = 200, !.chunks = Append(@, Shell)]
  /\ frag' = [i \in 1..Len(p) |-> "rendering"]
  /\ UNCHANGED cacheVars
  /\ ReactiveIdle

\* renderAndSendPage, lines 239-245, for a page without suspense components
SendWhole ==
  /\ req.pc = "render"
  /\ res' = SendResponse(res, req.statusCode, << Document >>)
  /\ store' = IF IsISR(req.url) THEN MemSet(req.url, << Document >>) ELSE store
  /\ req' = [req EXCEPT !.pc = "done", !.saved = IsISR(req.url)]
  /\ truth' = FullRender(<< Document >>)
  /\ UNCHANGED <<frag, disk, now, got>>
  /\ ReactiveIdle

\* lines 260-269: renderSuspenseComponent resolved, the replacement is written
FragmentResolves(i) ==
  /\ i \in DOMAIN frag /\ frag[i] = "rendering"
  /\ res' = [res EXCEPT !.chunks = Append(@, Replacement(i))]
  /\ req' = [req EXCEPT !.htmlChunks = Append(@, Replacement(i)),
                        !.completed = Append(@, i)]
  /\ frag' = [frag EXCEPT ![i] = "fulfilled"]
  /\ UNCHANGED cacheVars
  /\ ReactiveIdle

\* lines 270-279: renderSuspenseComponent threw, the catch block runs
FragmentThrows(i) ==
  /\ i \in DOMAIN frag /\ frag[i] = "rendering"
  /\ IF CatchBlockResBound
     THEN /\ res' = [res EXCEPT !.chunks = Append(@, ErrorReplacement(i))]
          /\ req' = [req EXCEPT !.errorStream = TRUE]
          /\ frag' = [frag EXCEPT ![i] = "caught"]
     ELSE /\ frag' = [frag EXCEPT ![i] = "rejected"]
          /\ UNCHANGED <<res, req>>
  /\ UNCHANGED cacheVars
  /\ ReactiveIdle

\* the client disconnects while the request is in flight; the close listener
\* of line 251 sees it only when it is registered already
ClientCloses ==
  /\ req.pc \in {"render", "awaitAll", "errorPage"}
  /\ ~res.closed
  /\ res' = [res EXCEPT !.closed = TRUE]
  /\ req' = [req EXCEPT !.abortedStream = req.listening]
  /\ UNCHANGED <<frag, cacheVars>>
  /\ ReactiveIdle

\* lines 281-289: Promise.all fulfilled, endStreamResponse, the cache
EndStream ==
  /\ req.pc = "awaitAll"
  /\ \A i \in DOMAIN frag : frag[i] \in {"fulfilled", "caught"}
  /\ LET html == Append(req.htmlChunks, Closing)
         save == IsISR(req.url) /\ ~req.abortedStream /\ ~req.errorStream
     IN /\ res' = [res EXCEPT !.chunks = Append(@, Closing), !.ended = TRUE]
        /\ req' = [req EXCEPT !.pc = "done", !.htmlChunks = html, !.saved = save]
        /\ store' = IF save THEN MemSet(PagePathOf(req.url), html) ELSE store
        /\ truth' = IF req.errorStream THEN truth ELSE FullRender(html)
  /\ UNCHANGED <<frag, disk, now, got>>
  /\ ReactiveIdle

\* line 281 and lines 308-327: Promise.all rejects with the first rejection,
\* renderAndSendPage rejects, handlePageRequest catches and enters the error page
RenderRejects ==
  /\ req.pc = "awaitAll"
  /\ \E i \in DOMAIN frag : frag[i] = "rejected"
  /\ Enter(req, res, "error", 500)
  /\ UNCHANGED <<frag, cacheVars>>
  /\ ReactiveIdle

\* an error call that leaves the status code to its default
PageRenderThrowsDefaultStatus ==
  /\ req.pc = "render"
  /\ Enter([req EXCEPT !.pageThrew = TRUE], res, "error", 200)
  /\ UNCHANGED <<frag, cacheVars>>
  /\ ReactiveIdle

\* line 237 and lines 308-327: the page render throws before anything is sent
PageRenderThrows ==
  /\ req.pc = "render"
  /\ Enter([req EXCEPT !.pageThrew = TRUE], res, "error", 500)
  /\ UNCHANGED <<frag, cacheVars>>
  /\ ReactiveIdle

\* lines 237-245 in the error call: the error page (no suspense components) is
\* rendered and sent with sendResponse, then stored when the route is cached;
\* when writeHead throws, so does the fallback of lines 328-331
ErrorPage ==
  /\ req.pc = "errorPage"
  /\ IF WriteHeadThrows
     THEN /\ req' = [req EXCEPT !.pc = "rejected"]
          /\ UNCHANGED <<res, store>>
     ELSE /\ req' = [req EXCEPT !.pc = "done", !.saved = IsISR(req.url)]
          /\ res' = SendResponse(res, req.statusCode, << ErrorDocument >>)
          /\ store' = IF IsISR(req.url) THEN MemSet(req.url, << ErrorDocument >>)
                                        ELSE store
  /\ UNCHANGED <<frag, disk, now, got, truth>>
  /\ ReactiveIdle

\* lines 328-331: the render of the error page throws, the fallback is sent
ErrorPageThrows ==
  /\ req.pc = "errorPage"
  /\ IF WriteHeadThrows
     THEN /\ req' = [req EXCEPT !.pc = "rejected", !.errorThrew = TRUE]
          /\ UNCHANGED res
     ELSE /\ req' = [req EXCEPT !.pc = "done", !.errorThrew = TRUE]
          /\ res' = SendResponse(res, 500, << FallbackDocument >>)
  /\ UNCHANGED <<frag, cacheVars>>
  /\ ReactiveIdle

NextStream ==
  \/ \E u \in Urls : HandlePageRequest(u)
  \/ \E p \in Pages : StartStream(p)
  \/ SendWhole
  \/ \E i \in 1..MaxBoundaries : FragmentResolves(i)
  \/ \E i \in 1..MaxBoundaries : FragmentThrows(i)
  \/ ClientCloses
  \/ EndStream
  \/ RenderRejects
  \/ PageRenderThrows
  \/ ErrorPage
  \/ ErrorPageThrows
  \/ Tick

SpecStream == Init /\ [][NextStream]_vars

\* the first request alone, the cache empty
FirstRequest(u) == req.n = 0 /\ HandlePageRequest(u)

NextFirstRequest ==
  \/ \E u \in Urls : FirstRequest(u)
  \/ \E p \in Pages : StartStream(p)
  \/ SendWhole
  \/ \E i \in 1..MaxBoundaries : FragmentResolves(i)
  \/ \E i \in 1..MaxBoundaries : FragmentThrows(i)
  \/ ClientCloses
  \/ EndStream
  \/ RenderRejects
  \/ PageRenderThrows
  \/ ErrorPage
  \/ ErrorPageThrows

SpecFirstRequest == Init /\ [][NextFirstRequest]_vars

\* the number of replacement payloads written for boundary i
RECURSIVE CountFor(_, _)
CountFor(chunks, i) ==
  IF chunks = << >> THEN 0
  ELSE (IF Head(chunks) \in {Replacement(i), ErrorReplacement(i)} THEN 1 ELSE 0)
       + CountFor(Tail(chunks), i)

\* C10: for every boundary whose fragment render has resolved or thrown,
\* exactly one replacement payload has been written to the response.
C10_OneReplacementPerBoundary ==
  \A i \in DOMAIN frag :
     /\ CountFor(res.chunks, i) <= 1
     /\ frag[i] /= "rendering" => CountFor(res.chunks, i) = 1

(***************************************************************************)
(* SuspenseStreamer: what the claims speak about                           *)
(***************************************************************************)
Streamed == frag /= << >>

\* the render of fragment i threw
Threw(i) == frag[i] \in {"rejected", "caught"}

Settled == \A i \in DOMAIN frag : frag[i] /= "rendering"

\* no step of the request is left to take
Over == req.pc \in {"done", "rejected"} /\ Settled

\* C11: in a streamed response the shell is the first chunk, the closing
\* markup is written at most once, only when every fragment has resolved or
\* thrown, and as the last chunk, and when the request is over it has been
\* written.
C11_ShellFirstClosingLast ==
  Streamed =>
    /\ res.chunks[1] = Shell
    /\ \A j \in DOMAIN res.chunks :
         /\ j > 1 => res.chunks[j] /= Shell
         /\ res.chunks[j] = Closing => j = Len(res.chunks) /\ Settled
    /\ Over => res.chunks[Len(res.chunks)] = Closing

\* the replacement chunks of the response, in the order written
ReplacementChunks == SelectSeq(res.chunks, LAMBDA c : c[1] = "replacement")

\* C12: the ids of the suspense components of a request are pairwise
\* distinct, the shell holds exactly one placeholder per id and holds it in
\* the place of the block of that component, replacement chunks are written
\* in completion order, and each carries the id and the content of one and
\* the same block.
C12_IdsPairBoundaries ==
  Streamed =>
    /\ \A i, j \in DOMAIN req.susp : i /= j => req.susp[i].id /= req.susp[j].id
    /\ \A i \in DOMAIN req.susp :
         /\ Cardinality({j \in DOMAIN req.shell :
                           req.shell[j] = Placeholder(req.susp[i].id)}) = 1
         /\ req.shell[i] = Placeholder(req.susp[i].id)
         /\ req.susp[i].content = req.page[i][3]
    /\ ReplacementChunks = [k \in DOMAIN req.completed |-> Replacement(req.completed[k])]
    /\ \A k \in DOMAIN ReplacementChunks :
         \A j \in DOMAIN req.shell :
            req.shell[j] = Placeholder(ReplacementChunks[k][2])
               => req.page[j][3] = ReplacementChunks[k][3]

\* two different blocks, the second completes first
C12_Witness ==
  /\ Len(req.completed) = 2
  /\ req.completed[1] = 2 /\ req.completed[2] = 1
  /\ req.page[1] /= req.page[2]
  /\ Len(ReplacementChunks) = 2

\* C13: when the render of a fragment throws, the error placeholder of that
\* boundary is in the response, the error flag of the request is set, the
\* request goes on (its promise is not rejected and the error page is not
\* entered), and every resolved fragment has its ordinary replacement.
C13_ThrowIsReplaced ==
  \A i \in DOMAIN frag :
    /\ Threw(i) =>
         /\ \E j \in DOMAIN res.chunks : res.chunks[j] = ErrorReplacement(i)
         /\ req.errorStream
         /\ frag[i] /= "rejected"
         /\ req.pageName = "page"
    /\ frag[i] = "fulfilled" =>
         \E j \in DOMAIN res.chunks : res.chunks[j] = Replacement(i)

\* C14: a streamed request whose fragments have all resolved or thrown and
\* that has no step left to take has ended its response with the closing
\* markup.
C14_StreamEnds ==
  (Streamed /\ Over) =>
     /\ res.ended
     /\ \E j \in DOMAIN res.chunks : res.chunks[j] = Closing

\* C15: a request that wrote a cache entry had no fragment throw and its
\* client did not disconnect before the response ended.
C15_CacheOnlyCleanRender ==
  req.saved =>
     /\ ~res.closed
     /\ \A i \in DOMAIN frag : ~Threw(i)

\* C16: a request to a cached url renders only when no full, error-free,
\* non-aborted render of that url lies inside the freshness window.
C16_NextRequestServed ==
  (req.pc = "render" /\ IsISR(req.url)) =>
     ~(req.url \in DOMAIN truth /\ ~Aged(req.url, RevalidateSecondsOf(req.url)))

\* C17: no cache entry holds the error page, and no request is answered
\* from the cache with the error page.
C17_NoErrorDocumentCached ==
  /\ \A k \in DOMAIN store : store[k].html /= << ErrorDocument >>
  /\ ~(req.fromCache /\ res.chunks = << ErrorDocument >>)

C19_SetResets ==
  \A i \in DOMAIN got :
    LET k == got[i].key
        w == got[i].window
    IN k \in DOMAIN truth =>
         /\ got[i].disk = [hit |-> TRUE, html |-> truth[k].html,
                           isStale |-> truth[k].inv \/ Aged(k, w)]
         /\ w /= Never =>
              got[i].mem = [hit |-> TRUE, html |-> truth[k].html,
                            isStale |-> Aged(k, w)]

\* a get inside the window of a key that was invalidated and then set again
C19_Witness ==
  /\ got /= << >>
  /\ got[1].key \in DOMAIN truth
  /\ got[1].window = 2
  /\ now - truth[got[1].key].at = 1
  /\ truth[got[1].key].cleared
  /\ ~got[1].disk.isStale /\ ~got[1].mem.isStale

\* C20: while a key is invalidated and not set again, the entry on disk has
\* the markup and the timestamp of its latest set, every other key has the
\* markup, timestamp and flag of its own history, and a get with any window
\* at any time returns that markup with isStale true.
C20_InvalidateFrame ==
  /\ DOMAIN disk = DOMAIN truth
  /\ \A k \in DOMAIN truth :
       /\ disk[k].html = truth[k].html
       /\ disk[k].meta.generatedAt = truth[k].at * 1000
       /\ disk[k].meta.isStale = truth[k].inv
  /\ \A i \in DOMAIN got :
       (got[i].key \in DOMAIN truth /\ truth[got[i].key].inv) =>
          got[i].disk = [hit |-> TRUE, html |-> truth[got[i].key].html,
                         isStale |-> TRUE]

\* a get with the window "never" of an invalidated key, another key present
C20_Witness ==
  /\ got /= << >>
  /\ got[1].key \in DOMAIN truth
  /\ truth[got[1].key].inv
  /\ got[1].window = Never
  /\ now > truth[got[1].key].at
  /\ \E j \in DOMAIN truth : j /= got[1].key /\ ~truth[j].inv

\* C21: a get of an entry that was set and not invalidated since reports fresh
\* with the window "never" and stale with the window "always" (0), whatever
\* the time since the set, zero included.
C21_NeverAndAlways ==
  \A i \in DOMAIN got :
    LET k == got[i].key
        w == got[i].window
    IN (k \in DOMAIN truth /\ ~truth[k].inv) =>
         /\ w = Never => ~got[i].disk.isStale
         /\ w = 0 => got[i].disk.isStale /\ got[i].mem.isStale

C23_RevalidateEndpoint ==
  \A i \in DOMAIN reply :
    LET r == reply[i] IN
      /\ r.status = 400 <=> r.path = ""
      /\ r.status = 500 <=> r.threw
      /\ r.status = 200 <=> (r.path /= "" /\ ~r.threw)
      /\ (r.status = 200 /\ r.present) => r.flagged
      /\ r.status = 400 => ~r.flagged
      /\ ~r.others
      /\ ~r.wrote

\* the endpoint flagged an entry that was fresh while another entry stays fresh
C23_Witness ==
  /\ reply /= << >>
  /\ reply[1].status = 200 /\ reply[1].present /\ reply[1].flagged
  /\ \E j \in DOMAIN truth : j /= reply[1].path /\ ~truth[j].inv
  /\ store /= << >>

(***************************************************************************)
(* ServerRenderer (src/server/utils/template.js).  A template is the list  *)
(* of nodes htmlparser2 makes of it: a text node carries data, a tag node  *)
(* a name, attribs and children.  Every JavaScript value is a tuple of     *)
(* strings: <<"bool", "true">>, <<"num", "1">>, <<"str", "x">>, and        *)
(* <<"arr", e1, ..., en>> for an array of scalars.  The value of an        *)
(* attribute is <<"expr", source>> until a directive evaluates it.  An     *)
(* expression is an identifier, resolved against the scope, or a call that *)
(* throws.  The output is the processed node list: dom-serializer prints   *)
(* every node of it in order and every key of attribs.                     *)
(***************************************************************************)
MaxSiblings == 3   \* elements of a conditional chain
MaxItems == 3      \* elements of a list a v-for walks

Bool(b) == <<"bool", IF b THEN "true" ELSE "false">>
Str(x) == <<"str", x>>
Expr(e) == <<"expr", e>>

\* the scalar an element of an array stands for
ItemValue(tok) == IF tok \in {"true", "false"} THEN <<"bool", tok>> ELSE <<"num", tok>>

\* Array.isArray
IsArray(v) == v[1] = "arr"

\* JavaScript truthiness, as in if (!show)
IsTruthy(v) ==
  CASE v[1] = "bool" -> v[2] = "true"
    [] v[1] = "str" -> v[2] /= ""
    [] v[1] = "num" -> v[2] /= "0"
    [] OTHER -> TRUE

\* String(value), as String.prototype.replace applies it to what the callback
\* returns: the pieces an array is joined from, one piece for a scalar
StringOf(v) == IF IsArray(v) THEN Tail(v) ELSE <<v[2]>>

Tag(name, attribs, children) ==
  [type |-> "tag", name |-> name, data |-> << >>, interp |-> FALSE,
   attribs |-> attribs, children |-> children]

\* a text node "data", or "{{data}}" when interp
Text(data, interp) ==
  [type |-> "text", name |-> "", data |-> <<data>>, interp |-> interp,
   attribs |-> << >>, children |-> << >>]

\* delete attrs[name]
Delete(attrs, name) == [x \in DOMAIN attrs \ {name} |-> attrs[x]]

\* attrs[name] = value, and {...scope, [name]: value}
Assign(attrs, name, value) ==
  [x \in DOMAIN attrs \cup {name} |-> IF x = name THEN value ELSE attrs[x]]

\* an evaluate without the try: what the exception leaves is not empty
EvaluateUnguarded(expr, scope) ==
  IF expr \in DOMAIN scope THEN scope[expr] ELSE Str("ReferenceError")

\* evaluate: an identifier outside the scope and a call that throws end in the
\* catch, which returns ""
Evaluate(expr, scope) ==
  IF expr \in DOMAIN scope THEN scope[expr] ELSE Str("")

IsEmptyTextNode(node) ==
  node.type = "text" /\ ~node.interp /\ node.data \in {<<"">>, <<" ">>}

\* the names a binding attribute and an event attribute can have
BindName == [x \in {":p", "v-bind:p"} |-> "p"]
EventNames == {"@e", "v-on:e"}

\* lines 52-58: attrs.style = (attrs.style || "") + "display:none;"
Hidden == Str("display:none;")

\* a loop scope that does not bind the item
NewScopeUnbound(scope, itemName, item) == scope

\* line 79: { ...scope, [itemName]: item }
NewScope(scope, itemName, item) == Assign(scope, itemName, ItemValue(item))

\* lines 86-99: every :prop and v-bind:prop becomes prop = evaluate(value)
Bound(attrs, scope) ==
  [x \in (DOMAIN attrs \ DOMAIN BindName)
         \cup {BindName[n] : n \in DOMAIN attrs \cap DOMAIN BindName} |->
     IF \E n \in DOMAIN attrs \cap DOMAIN BindName : BindName[n] = x
     THEN LET n == CHOOSE n \in DOMAIN attrs \cap DOMAIN BindName : BindName[n] = x
          IN Evaluate(attrs[n][2], scope)
     ELSE attrs[x]]

\* lines 101-106: every @event and v-on:event is deleted
Silent(attrs) == [x \in DOMAIN attrs \ EventNames |-> attrs[x]]

\* the value of a v-for attribute, "item in list"
ForExpr(itemName, listExpr) == <<"expr", itemName, listExpr>>

RECURSIVE ProcessNode(_, _, _), Walk(_, _, _, _)

\* processNode: what stands for the return value is a list, empty for null,
\* of one node for a node, of the clones for the array of a v-for
ProcessNode(node, scope, previousRendered) ==
  IF node.type = "text"
  THEN << [node EXCEPT !.data = IF node.interp
                                 THEN StringOf(Evaluate(node.data[1], scope))
                                 ELSE node.data,
                       !.interp = FALSE] >>
  ELSE
    LET attrs == node.attribs
        chained == Delete(Delete(Delete(attrs, "v-if"), "v-else-if"), "v-else")
        shown == IF "v-show" \notin DOMAIN chained THEN chained
                 ELSE IF IsTruthy(Evaluate(chained["v-show"][2], scope))
                      THEN Delete(chained, "v-show")
                      ELSE Assign(Delete(chained, "v-show"), "style", Hidden)
    IN IF "v-if" \in DOMAIN attrs
          /\ ~IsTruthy(Evaluate(attrs["v-if"][2], scope))
       THEN << >>
       ELSE IF "v-else-if" \in DOMAIN attrs
               /\ (previousRendered
                   \/ ~IsTruthy(Evaluate(attrs["v-else-if"][2], scope)))
       THEN << >>
       ELSE IF "v-else" \in DOMAIN attrs /\ previousRendered
       THEN << >>
       ELSE IF "v-for" \in DOMAIN shown
       THEN LET list == Evaluate(shown["v-for"][3], scope)
                cloned == [node EXCEPT !.attribs = Delete(shown, "v-for")]
            IN IF ~IsArray(list) THEN << >>
               ELSE [i \in 1..(Len(list) - 1) |->
                       ProcessNode(cloned,
                                   NewScope(scope, shown["v-for"][2], list[i + 1]),
                                   FALSE)[1]]
       ELSE << [node EXCEPT !.attribs = Silent(Bound(shown, scope)),
                            !.children = Walk(node.children, scope, 1, FALSE)] >>

\* lines 108-128: the walk over the children from the i-th on
Walk(children, scope, i, isPreviousRendered) ==
  IF i > Len(children) THEN << >>
  ELSE IF IsEmptyTextNode(children[i])
  THEN Walk(children, scope, i + 1, isPreviousRendered)
  ELSE LET processed == ProcessNode(children[i], scope, isPreviousRendered)
       IN processed \o Walk(children, scope, i + 1, Len(processed) > 0)

RECURSIVE Flat(_)
\* Array.prototype.flat over the results, null dropped by filter(Boolean)
Flat(results) ==
  IF results = << >> THEN << >> ELSE Head(results) \o Flat(Tail(results))

\* compileTemplateToHTML: every root node is processed with previousRendered
\* left at its default
CompileTemplateToHTML(template, data) ==
  Flat([i \in DOMAIN template |-> ProcessNode(template[i], data, FALSE)])

(***************************************************************************)
(* The client's conditional chains (src/.app/client/services/html.js).     *)
(* The values are the interpolated values of the template literal; the     *)
(* condition of an element is the value its marker stands for.             *)
(***************************************************************************)
\* lines 164-165: the value of the marker in the condition, false without one
ClientCondition(condition, values) ==
  IF condition[2] \in DOMAIN values THEN IsTruthy(values[condition[2]]) ELSE FALSE

RECURSIVE CollectChain(_, _, _)
\* lines 117-149: the indices of the chain that starts at currentIndex and the
\* index of the first child behind it
CollectChain(children, currentIndex, chain) ==
  IF currentIndex > Len(children) THEN [chain |-> chain, next |-> currentIndex]
  ELSE LET element == children[currentIndex] IN
    IF element.type /= "tag" THEN CollectChain(children, currentIndex + 1, chain)
    ELSE IF "v-if" \in DOMAIN element.attribs
    THEN CollectChain(children, currentIndex + 1, Append(chain, currentIndex))
    ELSE IF "v-else-if" \in DOMAIN element.attribs /\ chain /= << >>
    THEN CollectChain(children, currentIndex + 1, Append(chain, currentIndex))
    ELSE IF "v-else" \in DOMAIN element.attribs /\ chain /= << >>
    THEN [chain |-> Append(chain, currentIndex), next |-> currentIndex + 1]
    ELSE [chain |-> chain, next |-> currentIndex]

\* lines 151-173: the index of the element kept, 0 when none is
Kept(children, chain, values) ==
  LET hits == {j \in DOMAIN chain :
                 LET a == children[chain[j]].attribs IN
                 IF "v-if" \in DOMAIN a THEN ClientCondition(a["v-if"], values)
                 ELSE IF "v-else-if" \in DOMAIN a
                 THEN ClientCondition(a["v-else-if"], values)
                 ELSE TRUE}
  IN IF hits = {} THEN 0
     ELSE chain[CHOOSE j \in hits : \A h \in hits : j <= h]

RECURSIVE Remaining(_, _, _, _, _)
\* the children from j up to next once the chain is handled: the kept element
\* without its directive, the other elements of the chain removed
Remaining(children, j, next, chain, kept) ==
  IF j >= next THEN << >>
  ELSE (IF \E c \in DOMAIN chain : chain[c] = j
        THEN IF j = kept
             THEN << [children[j] EXCEPT
                        !.attribs = Delete(Delete(Delete(@, "v-if"),
                                                  "v-else-if"), "v-else")] >>
             ELSE << >>
        ELSE << children[j] >>)
       \o Remaining(children, j + 1, next, chain, kept)

\* handleConditionalChain
HandleConditionalChain(children, startIndex, values) ==
  LET c == CollectChain(children, startIndex, << >>)
  IN [next |-> c.next,
      nodes |-> Remaining(children, startIndex, c.next, c.chain,
                          Kept(children, c.chain, values))]

RECURSIVE ProcessDirectives(_, _, _)
\* processDirectives over the children from the i-th on; an element with a
\* v-for is left to handleVFor
ProcessDirectives(children, i, values) ==
  IF i > Len(children) THEN << >>
  ELSE LET child == children[i] IN
    IF child.type = "tag" /\ "v-if" \in DOMAIN child.attribs
    THEN LET h == HandleConditionalChain(children, i, values)
         IN h.nodes \o ProcessDirectives(children, h.next, values)
    ELSE IF child.type = "tag" /\ "v-for" \notin DOMAIN child.attribs
    THEN << [child EXCEPT !.children = ProcessDirectives(@, 1, values)] >>
         \o ProcessDirectives(children, i + 1, values)
    ELSE << child >> \o ProcessDirectives(children, i + 1, values)

(***************************************************************************)
(* The templates and the data they are compiled with                       *)
(***************************************************************************)
Names == <<"A", "B", "C", "D", "E">>
Conds == <<"c1", "c2", "c3", "c4", "c5">>
ChainAttributes == {"v-if", "v-else-if", "v-else"}

\* a v-if, then v-else-if, a v-else only at the end
ChainShapes ==
  {k \in UNION {[1..n -> ChainAttributes] : n \in 1..MaxSiblings} :
     /\ k[1] = "v-if"
     /\ \A i \in 2..Len(k) : k[i] /= "v-if" /\ (k[i] = "v-else" => i = Len(k))}

\* <A v-if="c1">A</A><B v-else-if="c2">B</B>...
ChainElements(k) ==
  [i \in DOMAIN k |->
     Tag(Names[i], (k[i] :> Expr(IF k[i] = "v-else" THEN "" ELSE Conds[i])),
         << Text(Names[i], FALSE) >>)]

RECURSIVE Spaced(_)
\* the same elements with the blank between them that the clean-up leaves
Spaced(nodes) ==
  IF Len(nodes) <= 1 THEN nodes
  ELSE << Head(nodes), Text(" ", FALSE) >> \o Spaced(Tail(nodes))

Sibling == Tag("S", << >>, << Text("S", FALSE) >>)

\* a chain inside a parent element
ChainTemplates ==
  {[kind |-> "chain", shape |-> k,
    nodes |-> << Tag("div", << >>, IF sp THEN Spaced(ChainElements(k))
                                          ELSE ChainElements(k)) >>] :
     k \in ChainShapes, sp \in BOOLEAN}

\* a chain at the root of the template
RootTemplates ==
  {[kind |-> "root", shape |-> k,
    nodes |-> IF sp THEN Spaced(ChainElements(k)) ELSE ChainElements(k)] :
     k \in ChainShapes, sp \in BOOLEAN}

\* <ul><li v-for="item in items" v-show=".." :p=".." @e="go">{{item}}</li><S>S</S></ul>
ListTemplates ==
  {[kind |-> "list", shape |-> <<show, bind>>,
    nodes |-> << Tag("ul", << >>,
                     << Tag("li",
                            ("v-for" :> ForExpr("item", "items"))
                            @@ (IF show = "" THEN << >> ELSE ("v-show" :> Expr(show)))
                            @@ (IF bind = "" THEN << >> ELSE (":p" :> Expr(bind)))
                            @@ ("@e" :> Expr("go")),
                            << Text("item", TRUE) >>),
                        Sibling >>) >>] :
     show \in {"", "item", "flag"}, bind \in {"", "item", "flag"}}

\* <input :p="flag" v-on:e="go"><p>{{msg}}</p><S>S</S>
BindTemplates ==
  {[kind |-> "bind", shape |-> <<b>>,
    nodes |-> << Tag("input", (b :> Expr("flag")) @@ ("v-on:e" :> Expr("go")), << >>),
                 Tag("p", << >>, << Text("msg", TRUE) >>),
                 Sibling >>] :
     b \in DOMAIN BindName}

Templates == ChainTemplates \cup RootTemplates \cup ListTemplates \cup BindTemplates

Tokens == {"true", "false", "1", "2", "3"}
Lists == {<<"arr">> \o e : e \in UNION {[1..n -> Tokens] : n \in 0..MaxItems}}

\* every binding of every subset of the names to the values
Bindings(names, values) == UNION {[D -> values] : D \in SUBSET names}

\* the data a template is compiled with; a name may be missing from it
DataOf(t) ==
  CASE t.kind \in {"chain", "root"} ->
         Bindings({Conds[i] : i \in DOMAIN t.shape}, {Bool(TRUE), Bool(FALSE)})
    [] t.kind = "list" ->
         {i @@ f : i \in Bindings({"items"}, Lists \cup {Str("x")}),
                   f \in Bindings({"flag"}, {Bool(TRUE), Bool(FALSE)})}
    [] OTHER ->
         {f @@ m : f \in Bindings({"flag"}, {Bool(TRUE), Bool(FALSE), Str("x"),
                                             <<"num", "1">>}),
                   m \in Bindings({"msg"}, {Str("hi")})}

TemplateStays == UNCHANGED <<reactiveVars, req, frag, res, cacheVars, reply, clientVars>>

\* compileTemplateToHTML(template, data)
CompileTemplate(t, data) ==
  /\ view' = << [template |-> t, data |-> data,
                 html |-> CompileTemplateToHTML(t.nodes, data),
                 dom |-> << >>, hydrated |-> FALSE] >>
  /\ TemplateStays

\* the client renders the same chain with the same values: processDirectives
ClientRender ==
  /\ view /= << >> /\ ~view[1].hydrated
  /\ view[1].template.kind \in {"chain", "root"}
  /\ \A i \in DOMAIN view[1].template.shape : Conds[i] \in DOMAIN view[1].data
  /\ view' = << [view[1] EXCEPT
                   !.dom = ProcessDirectives(view[1].template.nodes, 1,
                                             view[1].data),
                   !.hydrated = TRUE] >>
  /\ TemplateStays

\* one call of the server renderer, with any template and any data for it
Compile ==
  /\ view = << >>
  /\ \E t \in Templates : \E data \in DataOf(t) : CompileTemplate(t, data)

NextTemplate ==
  \/ Compile
  \/ ClientRender

SpecTemplate == Init /\ [][NextTemplate]_vars

(***************************************************************************)
(* ServerRenderer: what the claims speak about                             *)
(***************************************************************************)
\* the names of the elements among the nodes, in order
TagNames(nodes) ==
  LET tags == SelectSeq(nodes, LAMBDA n : n.type = "tag")
  IN [i \in DOMAIN tags |-> tags[i].name]

\* the level of the output the chain of the template stands on
ChainLevel(v, nodes) == IF v.template.kind = "chain" THEN nodes[1].children ELSE nodes

\* every condition of the chain has a value
Assigned(v) == \A i \in DOMAIN v.template.shape : Conds[i] \in DOMAIN v.data

\* the element the grammar keeps: the first whose condition is truthy, the
\* v-else when none before it is
Expected(v) ==
  LET k == v.template.shape
      hits == {i \in DOMAIN k :
                 \/ k[i] = "v-else"
                 \/ Conds[i] \in DOMAIN v.data /\ IsTruthy(v.data[Conds[i]])}
  IN IF hits = {} THEN << >>
     ELSE << Names[CHOOSE i \in hits : \A h \in hits : i <= h] >>

\* C24: of a chain among the children of an element the server renders the
\* first element whose condition is truthy, or the v-else when none before it
\* is, and no other element of the chain, whatever the truth assignment.
C24_OneOfChain ==
  \A i \in DOMAIN view :
    (view[i].template.kind = "chain" /\ Assigned(view[i])) =>
       TagNames(ChainLevel(view[i], view[i].html)) = Expected(view[i])

\* C25: of a v-if element followed by a v-else element at the root of a
\* template the server outputs the v-if element when the condition is truthy
\* and the v-else element when it is falsy, exactly one of the two.
C25_RootIfElse ==
  \A i \in DOMAIN view :
    (/\ view[i].template.kind = "root"
     /\ view[i].template.shape = <<"v-if", "v-else">>
     /\ Assigned(view[i])) =>
       TagNames(view[i].html) = IF IsTruthy(view[i].data["c1"])
                                THEN <<"A">> ELSE <<"B">>

\* C26: for every chain and every truth assignment the client and the server
\* keep the same element of the chain, or both keep none.
C26_RenderersAgree ==
  \A i \in DOMAIN view :
    view[i].hydrated =>
       TagNames(ChainLevel(view[i], view[i].dom))
         = TagNames(ChainLevel(view[i], view[i].html))

\* the instances of the v-for element in the output
Instances(v) == SelectSeq(v.html[1].children, LAMBDA n : n.name = "li")

Looped(v) ==
  v.template.kind = "list" /\ "items" \in DOMAIN v.data /\ IsArray(v.data["items"])

\* C27: a v-for over a sequence of n elements puts n instances in the place
\* of the element, in the order of the sequence, the i-th rendered with the
\* item bound to the i-th element, none with the v-for attribute.
C27_ForInstances ==
  \A i \in DOMAIN view :
    Looped(view[i]) =>
      LET list == Tail(view[i].data["items"])
          lis == Instances(view[i])
      IN /\ TagNames(view[i].html[1].children)
              = [j \in 1..(Len(list) + 1) |-> IF j <= Len(list) THEN "li" ELSE "S"]
         /\ Len(lis) = Len(list)
         /\ \A j \in DOMAIN lis :
              /\ TagNames(<<lis[j]>>) = <<"li">>
              /\ Len(lis[j].children) = 1
              /\ lis[j].children[1].data = <<list[j]>>
              /\ "v-for" \notin DOMAIN lis[j].attribs

\* three <li> with 1, 2, 3 for the list [1, 2, 3]
C27_Witness ==
  /\ view /= << >>
  /\ Looped(view[1])
  /\ view[1].data["items"] = <<"arr", "1", "2", "3">>
  /\ Len(Instances(view[1])) = 3
  /\ \A j \in 1..3 : Instances(view[1])[j].children[1].data = <<view[1].data["items"][j + 1]>>

\* C28: on an element with v-for and v-show the v-show is evaluated after the
\* loop, once for every instance with the item in scope, so an instance is
\* hidden exactly when its own item is falsy; a :prop on such an element holds
\* the value of the instance's own item; no directive attribute is left.
C28_DirectiveOrder ==
  \A i \in DOMAIN view :
    Looped(view[i]) =>
      LET list == Tail(view[i].data["items"])
          lis == Instances(view[i])
      IN \A j \in DOMAIN lis :
           /\ view[i].template.shape[1] = "item" =>
                ("style" \in DOMAIN lis[j].attribs) = ~IsTruthy(ItemValue(list[j]))
           /\ (view[i].template.shape[2] = "item" /\ ItemValue(list[j])[1] /= "bool") =>
                /\ "p" \in DOMAIN lis[j].attribs
                /\ lis[j].attribs["p"] = ItemValue(list[j])
           /\ DOMAIN lis[j].attribs \subseteq {"style", "p"}

\* C29: a :prop whose expression is true leaves the attribute in the output,
\* one that is false leaves no attribute, any other value is the value of the
\* attribute; the binding attribute itself is never in the output.
C29_BooleanBinding ==
  \A i \in DOMAIN view :
    (view[i].template.kind = "bind" /\ "flag" \in DOMAIN view[i].data) =>
      LET flag == view[i].data["flag"]
          attrs == view[i].html[1].attribs
      IN /\ flag = Bool(TRUE) => "p" \in DOMAIN attrs
         /\ flag = Bool(FALSE) => "p" \notin DOMAIN attrs
         /\ flag[1] /= "bool" => ("p" \in DOMAIN attrs /\ attrs["p"] = flag)
         /\ DOMAIN attrs \cap DOMAIN BindName = {}

\* the data with every condition that has no value set to false
Falsified(v) ==
  [c \in {Conds[i] : i \in DOMAIN v.template.shape} |->
     IF c \in DOMAIN v.data THEN v.data[c] ELSE Bool(FALSE)]

\* C30: an expression that cannot be resolved gives the output that an empty
\* or false value gives: a condition without a value renders what the same
\* chain renders with that condition false, a v-for over a missing list
\* renders no instance, an interpolation of a missing name renders empty, and
\* the nodes around them are rendered as they stand.
C30_ThrowIsEmpty ==
  \A i \in DOMAIN view :
    LET v == view[i] IN
      /\ v.template.kind \in {"chain", "root"} =>
           v.html = CompileTemplateToHTML(v.template.nodes, Falsified(v))
      /\ (v.template.kind = "list" /\ "items" \notin DOMAIN v.data) =>
           v.html = << Tag("ul", << >>, << Sibling >>) >>
      /\ (v.template.kind = "bind" /\ "msg" \notin DOMAIN v.data) =>
           /\ Len(v.html) = 3
           /\ v.html[1].name = "input"
           /\ v.html[2] = Tag("p", << >>, << Text("", FALSE) >>)
           /\ v.html[3] = Sibling

\* a v-if whose condition has no value beside a v-else-if that is true: the
\* v-else-if element is the one rendered
C30_Witness ==
  /\ view /= << >>
  /\ view[1].template.kind = "chain"
  /\ view[1].template.shape = <<"v-if", "v-else-if">>
  /\ DOMAIN view[1].data = {"c2"}
  /\ view[1].data["c2"] = Bool(TRUE)
  /\ TagNames(view[1].html[1].children) = <<"B">>

(***************************************************************************)
(* ClientRenderer: the component module that the build generates           *)
(* (src/server/utils/component-processor.js, 596-620) and the html tag     *)
(* (src/.app/client/services/html.js, 37-66).  A node is <<k, i>>, the     *)
(* i-th root node of the tree that run k of the effect produced; the       *)
(* marker is <<0, 0>>.  html returns the element when the template has one *)
(* root element and a DocumentFragment otherwise.  A DocumentFragment      *)
(* gives its children away when it is inserted and has no replaceWith.     *)
(***************************************************************************)
MaxRuns == 4     \* runs of the effect of one component
MaxRoots == 3    \* root elements of a template

ServerStays == UNCHANGED <<reactiveVars, req, frag, res, cacheVars, reply, view>>

Marker == <<0, 0>>
Tree(k, n) == [i \in 1..n |-> <<k, i>>]

\* html: fragment.childElementCount === 1 ? fragment.firstElementChild : fragment
HtmlNode(k, n) == <<IF n = 1 THEN "element" ELSE "fragment", k>>

\* a render that takes the old tree out before it builds the new one
RenderDetaching(m, n, throws) ==
  LET k == m.run + 1 IN
  IF throws \/ m.root[1] = "fragment"
  THEN [m EXCEPT !.run = k, !.log = Append(@, IF throws THEN "threw" ELSE "TypeError"),
                 !.before = m.anchor, !.anchor = << >>, !.raised = TRUE]
  ELSE [m EXCEPT !.run = k, !.log = Append(@, "mounted"), !.before = m.anchor,
                 !.anchor = Tree(k, n), !.root = HtmlNode(k, n), !.raised = FALSE]

\* one run of wrapped: render() with a template of n root elements; throws is
\* whether building the tree throws.  Neither wrapped (reactive.js 145-150)
\* nor the set trap (112-121) catches, so what render throws reaches the
\* caller that triggered the run.
Render(m, n, throws) ==
  LET k == m.run + 1 IN
  IF throws
  THEN [m EXCEPT !.run = k, !.log = Append(@, "threw"), !.before = m.anchor,
                 !.raised = TRUE]
  ELSE IF m.root[1] = "fragment"
  THEN [m EXCEPT !.run = k, !.log = Append(@, "TypeError"), !.before = m.anchor,
                 !.raised = TRUE]
  ELSE [m EXCEPT !.run = k, !.log = Append(@, "mounted"), !.before = m.anchor,
                 !.anchor = Tree(k, n), !.root = HtmlNode(k, n), !.raised = FALSE]

MountStays == ServerStays /\ UNCHANGED <<ssr, routes, nav, routeCache, hyd, layouts>>

\* hydrateClientComponent(marker): effect(() => render()) runs render at once
HydrateClientComponent(n, throws) ==
  /\ mount = << >>
  /\ mount' = << Render([run |-> 0, anchor |-> << Marker >>, before |-> << >>,
                         root |-> <<"null", 0>>, log |-> << >>, raised |-> FALSE],
                        n, throws) >>
  /\ MountStays

\* a write to a cell the render read: the set trap calls wrapped again
Rerender(n, throws) ==
  /\ mount /= << >> /\ mount[1].run < MaxRuns
  /\ mount' = << Render(mount[1], n, throws) >>
  /\ MountStays

NextMount ==
  \/ \E n \in 1..MaxRoots, throws \in BOOLEAN : HydrateClientComponent(n, throws)
  \/ \E n \in 1..MaxRoots, throws \in BOOLEAN : Rerender(n, throws)

SpecMount == Init /\ [][NextMount]_vars

\* C31: after every run of the effect in which the tree was built, the nodes
\* at the anchor are the root nodes of the tree of that run and nothing else.
C31_OneTreeMounted ==
  \A i \in DOMAIN mount :
    LET m == mount[i] IN
    (m.run > 0 /\ m.log[m.run] /= "threw") =>
       /\ m.anchor /= << >>
       /\ \A j \in DOMAIN m.anchor : m.anchor[j][1] = m.run

\* C32: a run in which render throws hands the error to the caller of the
\* write and leaves the nodes at the anchor as they were; a run in which
\* render returns puts the tree of that run at the anchor and hands no error
\* on, also after runs that threw.
C32_ThrowKeepsTree ==
  \A i \in DOMAIN mount :
    LET m == mount[i] IN
    m.run > 0 =>
      /\ m.log[m.run] /= "mounted" => (m.raised /\ m.anchor = m.before)
      /\ m.log[m.run] = "mounted" =>
           /\ ~m.raised
           /\ m.anchor /= << >>
           /\ \A j \in DOMAIN m.anchor : m.anchor[j][1] = m.run

\* a re-render that threw over a mounted tree, then one that replaced the tree
C32_Witness ==
  /\ mount /= << >>
  /\ mount[1].run = 3
  /\ mount[1].log = <<"mounted", "threw", "mounted">>
  /\ mount[1].before = << <<1, 1>> >>
  /\ mount[1].anchor = << <<3, 1>> >>

(***************************************************************************)
(* Server components of src/server/utils/ssr.js.  serverElementRegex is    *)
(* one module-level object with the g flag (line 7): exec starts looking   *)
(* at its lastIndex, sets lastIndex to the end of the match, and sets it   *)
(* to 0 when nothing matches.  renderServerComponents awaits twice inside  *)
(* the exec loop (35, 37), so calls for different requests interleave      *)
(* there.  A page is a sequence of tokens: <<"tag", c>> is the element of  *)
(* server component c, <<"out", c>> the markup c rendered, <<"text", "">>  *)
(* other markup; positions are counted in characters.                      *)
(***************************************************************************)
MaxTokens == 2   \* tokens of a page that reaches renderServerComponents

Components == {"a", "b"}
\* characters of a token: the element of a component, what it renders, text
Width(tok) ==
  CASE tok[1] = "tag" -> 2
    [] tok[1] = "out" -> IF tok[2] = "a" THEN 1 ELSE 3
    [] OTHER -> 1

RECURSIVE Offset(_, _)
\* index of the first character of token i
Offset(html, i) == IF i = 1 THEN 0 ELSE Offset(html, i - 1) + Width(html[i - 1])

\* serverElementRegex.exec(html) with the cursor at lastIndex: the match
\* (index of the token, 0 for null) and the cursor afterwards
Exec(html, lastIndex) ==
  LET hits == {i \in DOMAIN html : html[i][1] = "tag" /\ Offset(html, i) >= lastIndex} IN
  IF hits = {} THEN [match |-> << >>, lastIndex |-> 0]
  ELSE LET i == CHOOSE h \in hits : \A g \in hits : h <= g IN
       [match |-> html[i], lastIndex |-> Offset(html, i) + Width(html[i])]

\* html.replace(match[0], rendered): the first occurrence of the matched text
Replace(html, match) ==
  LET hits == {i \in DOMAIN html : html[i] = match} IN
  IF hits = {} THEN html
  ELSE LET i == CHOOSE h \in hits : \A g \in hits : h <= g IN
       [html EXCEPT ![i] = <<"out", match[2]>>]

ServerPages ==
  UNION {[1..n -> {<<"tag", "a">>, <<"tag", "b">>, <<"text", "">>}] : n \in 0..MaxTokens}

RECURSIVE Loop(_, _, _)
\* the while loop of renderServerComponents with nothing else running;
\* fuel bounds the unfolding (every turn takes one element away)
Loop(html, lastIndex, fuel) ==
  LET e == Exec(html, lastIndex) IN
  IF e.match = << >> \/ fuel = 0 THEN html
  ELSE Loop(Replace(html, e.match), e.lastIndex, fuel - 1)

\* the response of a request that is handled alone
RunAlone(html) == Loop(html, 0, Len(html))

SsrStays == ServerStays /\ UNCHANGED <<mount, routes, nav, routeCache, hyd, layouts>>

\* the head of the while loop for request r, up to the first await or the
\* return
LoopHead(s, r, html) ==
  LET e == Exec(html, s.lastIndex) IN
  [s EXCEPT !.lastIndex = e.lastIndex,
            !.calls[r] = [@ EXCEPT !.html = html, !.match = e.match,
                                   !.pc = IF e.match = << >> THEN "returned" ELSE "import"]]

\* two requests arrive, each with its page
Arrive(p, q) ==
  /\ ssr = << >>
  /\ ssr' = << [lastIndex |-> 0,
                calls |-> [r \in 1..2 |->
                   [input |-> IF r = 1 THEN p ELSE q, html |-> << >>,
                    match |-> << >>, pc |-> "called"]]] >>
  /\ SsrStays

\* renderServerComponents(html) is called for request r
RenderServerComponents(r) ==
  /\ ssr /= << >> /\ ssr[1].calls[r].pc = "called"
  /\ ssr' = << LoopHead(ssr[1], r, ssr[1].calls[r].input) >>
  /\ SsrStays

\* await import(...) resolves; componentModule.default(attrs) is called
Imported(r) ==
  /\ ssr /= << >> /\ ssr[1].calls[r].pc = "import"
  /\ ssr' = << [ssr[1] EXCEPT !.calls[r].pc = "render"] >>
  /\ SsrStays

\* await componentModule.default(attrs) resolves: replace, then exec again
RenderedComponent(r) ==
  /\ ssr /= << >> /\ ssr[1].calls[r].pc = "render"
  /\ ssr' = << LoopHead(ssr[1], r, Replace(ssr[1].calls[r].html, ssr[1].calls[r].match)) >>
  /\ SsrStays

NextSsr ==
  \/ \E p, q \in ServerPages : Arrive(p, q)
  \/ \E r \in 1..2 : RenderServerComponents(r)
  \/ \E r \in 1..2 : Imported(r)
  \/ \E r \in 1..2 : RenderedComponent(r)

SpecSsr == Init /\ [][NextSsr]_vars

\* C33: whatever the interleaving of two requests at their awaits, the page
\* each request gets back is the page it gets back when it is handled alone.
C33_RequestsIsolated ==
  \A i \in DOMAIN ssr : \A r \in 1..2 :
    ssr[i].calls[r].pc = "returned" =>
      ssr[i].calls[r].html = RunAlone(ssr[i].calls[r].input)

(***************************************************************************)
(* The revalidate value of a page on its way to the request handler: the   *)
(* build writes it into the generated route table as a template string     *)
(* (src/server/utils/component-processor.js, 974-993), the handler gives   *)
(* route.meta.revalidate to getRevalidateSeconds (src/unnamed/part_021,    *)
(* 413; src/server/utils/cache.js, 136-148).  A JS value is <<type, text>>.*)
(***************************************************************************)
MaxPages == 2      \* pages of the route table
MaxServed == 2     \* requests served

Undefined == <<"undefined", "">>
\* what a page may declare as metadata.revalidate
Declared ==
  {Undefined, <<"number", "0">>, <<"number", "10">>, <<"boolean", "true">>,
   <<"boolean", "false">>, <<"string", "never">>}

IsNumeric(text) == text \in {"0", "10"}
\* Number(text) of a numeric text
NumberOf(text) == IF text = "10" THEN 10 ELSE 0

\* revalidate: "${metadataPage?.revalidate ?? 0}"
RouteRevalidate(v) == <<"string", IF v = Undefined THEN "0" ELSE v[2]>>

GetRevalidateSeconds(revalidate) ==
  IF revalidate[1] = "number" THEN NumberOf(revalidate[2])
  ELSE IF revalidate[1] = "string" /\ IsNumeric(revalidate[2]) THEN NumberOf(revalidate[2])
  ELSE IF revalidate = <<"boolean", "true">> THEN 60
  ELSE IF revalidate = <<"string", "never">> \/ revalidate = <<"boolean", "false">> THEN -1
  ELSE 0

RoutesStay == ServerStays /\ UNCHANGED <<mount, ssr, nav, routeCache, hyd, layouts>>

\* getRouteFileData for every page file: the generated route table
GetRouteFileData(pages) ==
  /\ routes = << >>
  /\ routes' = << [table |-> [i \in DOMAIN pages |->
                                [declared |-> pages[i],
                                 revalidate |-> RouteRevalidate(pages[i])]],
                   served |-> << >>] >>
  /\ RoutesStay

\* renderAndSendPage for the route i: the window applied to the request
RenderAndSendPage(i) ==
  /\ routes /= << >> /\ i \in DOMAIN routes[1].table
  /\ Len(routes[1].served) < MaxServed
  /\ routes' = << [routes[1] EXCEPT !.served = Append(@,
                     [page |-> i,
                      revalidateSeconds |->
                         GetRevalidateSeconds(routes[1].table[i].revalidate)])] >>
  /\ RoutesStay

NextRoutes ==
  \/ \E n \in 1..MaxPages : \E pages \in [1..n -> Declared] : GetRouteFileData(pages)
  \/ \E i \in 1..MaxPages : RenderAndSendPage(i)

SpecRoutes == Init /\ [][NextRoutes]_vars

\* the documented mapping of a declared value
Documented(v) ==
  CASE v[1] = "number" -> NumberOf(v[2])
    [] v = <<"boolean", "true">> -> 60
    [] v = <<"string", "never">> \/ v = <<"boolean", "false">> -> -1
    [] OTHER -> 0

\* C34: the window applied to a request is the documented mapping of the
\* value the page declares: n for a number n, 60 for true, -1 for 'never'
\* and false, 0 for 0 and for no value.
C34_DeclaredWindow ==
  \A k \in DOMAIN routes : \A j \in DOMAIN routes[k].served :
    LET s == routes[k].served[j] IN
    s.revalidateSeconds = Documented(routes[k].table[s.page].declared)

(***************************************************************************)
(* Client navigation: createNavigationRuntime                              *)
(* (src/.app/client/services/navigation/create-navigation.js, 24-74),      *)
(* navigateInternal (navigate.js, 27-64), renderSSRPage (render-ssr.js,    *)
(* 11-35) and renderPage (src/unnamed/part_015, 64-89).  The k-th call of  *)
(* navigate creates controller k; currentNavigationController is 0 for     *)
(* null.  dom records every write to the page, with the navigation that    *)
(* wrote and the navigation that was the latest one at that moment.        *)
(***************************************************************************)
MaxNavs == 3      \* calls of navigate
MaxChunks == 1    \* chunks of a streamed page before the stream ends

Pending == {"fetch", "read", "import", "generate"}

\* onFinish of a navigation that clears whatever controller is current
OnFinishClears(s, k) ==
  [s EXCEPT !.current = 0]

\* onFinish: () => { if (currentNavigationController === controller) ... = null }
OnFinish(s, k) ==
  IF s.current = k THEN [s EXCEPT !.current = 0] ELSE s

\* a write of navigation k to the page
Mounted(s, k) == [s EXCEPT !.dom = Append(@, [by |-> k, latest |-> Len(s.navs)])]

NavStays == ServerStays /\ UNCHANGED <<mount, ssr, routes, routeCache, hyd, layouts>>

\* createNavigationRuntime(): no controller, nothing mounted
CreateNavigationRuntime ==
  /\ nav = << >>
  /\ nav' = << [current |-> 0, navs |-> << >>, dom |-> << >>] >>
  /\ NavStays

\* navigate(path) up to the first await: abortPrevious, a new controller,
\* then fetch(path, {signal}) for a server-rendered route and
\* route.component() for a client-rendered one
Navigate(isSsr) ==
  /\ nav /= << >> /\ Len(nav[1].navs) < MaxNavs
  /\ LET s == nav[1]
         k == Len(s.navs) + 1
         aborted == [i \in DOMAIN s.navs |->
                       [s.navs[i] EXCEPT
                          !.aborted = @ \/ s.current = i,
                          !.superseded = @ \/ (i = k - 1 /\ s.navs[i].pc \in Pending)]]
     IN nav' = << [s EXCEPT !.current = k,
                            !.navs = Append(aborted,
                               [ssr |-> isSsr, pc |-> IF isSsr THEN "fetch" ELSE "import",
                                aborted |-> FALSE, superseded |-> FALSE, chunks |-> 0])] >>
  /\ NavStays

\* await fetch(path, { signal }) resolves with the response
Fetched(k) ==
  /\ nav /= << >> /\ k \in DOMAIN nav[1].navs
  /\ nav[1].navs[k].pc = "fetch" /\ ~nav[1].navs[k].aborted
  /\ nav' = << [nav[1] EXCEPT !.navs[k].pc = "read"] >>
  /\ NavStays

\* await reader.read() resolves: a chunk is written into main, or the
\* stream is done and navigateInternal reaches finally
Read(k, done) ==
  /\ nav /= << >> /\ k \in DOMAIN nav[1].navs
  /\ nav[1].navs[k].pc = "read" /\ ~nav[1].navs[k].aborted
  /\ done \/ nav[1].navs[k].chunks < MaxChunks
  /\ nav' = << IF done
               THEN OnFinish([nav[1] EXCEPT !.navs[k].pc = "done"], k)
               ELSE Mounted([nav[1] EXCEPT !.navs[k].chunks = @ + 1], k) >>
  /\ NavStays

\* the fetch or the read rejects: with AbortError after an abort, with
\* another error otherwise; finally runs onFinish, navigate catches
Rejected(k) ==
  /\ nav /= << >> /\ k \in DOMAIN nav[1].navs
  /\ nav[1].navs[k].pc \in {"fetch", "read"}
  /\ nav' = << OnFinish([nav[1] EXCEPT !.navs[k].pc =
                           IF nav[1].navs[k].aborted THEN "aborted" ELSE "failed"], k) >>
  /\ NavStays

\* await route.component() resolves (renderPage has no signal): the page is
\* built and layoutRenderer.generate is awaited; a failed import throws
ComponentLoaded(k, fails) ==
  /\ nav /= << >> /\ k \in DOMAIN nav[1].navs
  /\ nav[1].navs[k].pc = "import"
  /\ nav' = << IF fails
               THEN OnFinish([nav[1] EXCEPT !.navs[k].pc = "failed"], k)
               ELSE [nav[1] EXCEPT !.navs[k].pc = "generate"] >>
  /\ NavStays

\* await layoutRenderer.generate resolves: the node is patched into the
\* layout or appended to the root, then finally runs onFinish
Generated(k) ==
  /\ nav /= << >> /\ k \in DOMAIN nav[1].navs
  /\ nav[1].navs[k].pc = "generate"
  /\ nav' = << OnFinish(Mounted([nav[1] EXCEPT !.navs[k].pc = "done"], k), k) >>
  /\ NavStays

NextNavigate ==
  \/ CreateNavigationRuntime
  \/ \E isSsr \in BOOLEAN : Navigate(isSsr)
  \/ \E k \in 1..MaxNavs : Fetched(k)
  \/ \E k \in 1..MaxNavs, done \in BOOLEAN : Read(k, done)
  \/ \E k \in 1..MaxNavs : Rejected(k)
  \/ \E k \in 1..MaxNavs, fails \in BOOLEAN : ComponentLoaded(k, fails)
  \/ \E k \in 1..MaxNavs : Generated(k)

SpecNavigate == Init /\ [][NextNavigate]_vars

\* C35: a navigation writes to the page only while it is the latest one:
\* once navigate(B) has been called, an earlier navigation mounts nothing,
\* for server-rendered and for client-rendered routes.
C35_SupersededMountsNothing ==
  \A i \in DOMAIN nav : \A j \in DOMAIN nav[i].dom :
    nav[i].dom[j].by = nav[i].dom[j].latest

\* C36: the current controller is null or that of the latest navigate call;
\* a navigation that was in progress when the next one started has its
\* controller aborted; and while the latest navigation is in progress the
\* current controller is its own, whatever earlier navigations do when they
\* finish.
C36_ControllerOfLatest ==
  \A i \in DOMAIN nav :
    LET s == nav[i]
        n == Len(s.navs) IN
    /\ s.current \in {0, n}
    /\ \A k \in DOMAIN s.navs : s.navs[k].superseded => s.navs[k].aborted
    /\ (n > 0 /\ s.navs[n].pc \in Pending) => s.current = n

\* a superseded navigation ended by its abort while the newer one is still
\* in progress
C36_Witness ==
  /\ nav /= << >>
  /\ Len(nav[1].navs) = 2
  /\ nav[1].navs[1].superseded /\ nav[1].navs[1].pc = "aborted"
  /\ nav[1].navs[2].pc \in Pending
  /\ nav[1].current = 2

(***************************************************************************)
(* Route component cache (src/unnamed/part_016, 1-36).  Call k of          *)
(* loadRouteComponent is calls[k]; a call that had to import is at         *)
(* "importing" until its importer settles.  epoch counts the cache clears. *)
(***************************************************************************)
MaxLoads == 3     \* calls of loadRouteComponent / prefetchRouteComponent
MaxClears == 1    \* calls of clearRouteCache

RoutePaths == {"/a", "/b"}

\* const routeCache = new Map()
RouteCache ==
  IF routeCache = << >> THEN [cache |-> {}, calls |-> << >>, epoch |-> 0]
  ELSE routeCache[1]

RouteCacheStays == ServerStays /\ UNCHANGED <<mount, ssr, routes, nav, hyd, layouts>>

\* loadRouteComponent(path, importer), directly or from
\* prefetchRouteComponent, up to the return of the cached module or the
\* await of importer()
LoadRouteComponent(path, prefetch) ==
  /\ Len(RouteCache.calls) < MaxLoads
  /\ routeCache' = << [RouteCache EXCEPT !.calls = Append(@,
        [path |-> path, prefetch |-> prefetch, epoch |-> RouteCache.epoch,
         pc |-> IF path \in RouteCache.cache THEN "hit" ELSE "importing"])] >>
  /\ RouteCacheStays

\* await importer() resolves: routeCache.set(path, module); return module
ImporterResolved(k) ==
  /\ k \in DOMAIN RouteCache.calls /\ RouteCache.calls[k].pc = "importing"
  /\ routeCache' = << [RouteCache EXCEPT !.calls[k].pc = "loaded",
                                         !.cache = @ \cup {RouteCache.calls[k].path}] >>
  /\ RouteCacheStays

\* await importer() rejects: loadRouteComponent throws, prefetch logs
ImporterRejected(k) ==
  /\ k \in DOMAIN RouteCache.calls /\ RouteCache.calls[k].pc = "importing"
  /\ routeCache' = << [RouteCache EXCEPT !.calls[k].pc = "rejected"] >>
  /\ RouteCacheStays

ClearRouteCache ==
  /\ RouteCache.epoch < MaxClears
  /\ routeCache' = << [RouteCache EXCEPT !.cache = {}, !.epoch = @ + 1] >>
  /\ RouteCacheStays

NextRouteCache ==
  \/ \E path \in RoutePaths, prefetch \in BOOLEAN : LoadRouteComponent(path, prefetch)
  \/ \E k \in 1..MaxLoads : ImporterResolved(k)
  \/ \E k \in 1..MaxLoads : ImporterRejected(k)
  \/ ClearRouteCache

SpecRouteCache == Init /\ [][NextRouteCache]_vars

\* C37: between two cache clears the importer of a path is invoked at most
\* once (imports that rejected not counted), also when the path is asked for
\* again before the first import has resolved.
C37_ImportOnce ==
  \A p \in RoutePaths : \A e \in 0..MaxClears :
    Cardinality({k \in DOMAIN RouteCache.calls :
                   /\ RouteCache.calls[k].path = p
                   /\ RouteCache.calls[k].epoch = e
                   /\ RouteCache.calls[k].pc \in {"importing", "loaded"}}) <= 1

(***************************************************************************)
(* Hydration of client-component markers                                   *)
(* (src/public/app/services/hydrate-client-components.js, 4-52).  A call   *)
(* of hydrateMarker from the observer callback is a task with one marker,  *)
(* a call of hydrateComponents a task with the markers its query found, in *)
(* order; the head of todo is the marker whose module is being imported.   *)
(***************************************************************************)
MaxMarkers == 2   \* markers in the document
MaxTasks == 3     \* observer callbacks and hydrateComponents scans

MarkerIds == 1..MaxMarkers

Hydration ==
  IF hyd = << >>
  THEN [hydrated |-> [m \in MarkerIds |-> FALSE], invoked |-> [m \in MarkerIds |-> 0],
        added |-> {}, tasks |-> << >>]
  ELSE hyd[1]

RECURSIVE Unhydrated(_, _)
\* hydrateMarker returns at once for a marker with data-hydrated="true":
\* what is left of todo when the next import starts
Unhydrated(todo, hydrated) ==
  IF todo = << >> THEN << >>
  ELSE IF hydrated[Head(todo)] THEN Unhydrated(Tail(todo), hydrated)
  ELSE todo

\* querySelectorAll("[data-client\\:component]:not([data-hydrated='true'])")
QueryMarkers(hydrated) ==
  SelectSeq([i \in 1..MaxMarkers |-> i], LAMBDA m : ~hydrated[m])

HydrateStays == ServerStays /\ UNCHANGED <<mount, ssr, routes, nav, routeCache, layouts>>

\* the observer callback for the marker m, added to the document once:
\* hydrateMarker(node) up to the await of the import
ObserverCallback(m) ==
  /\ Len(Hydration.tasks) < MaxTasks /\ m \notin Hydration.added
  /\ hyd' = << [Hydration EXCEPT !.added = @ \cup {m}, !.tasks =
                  Append(@, Unhydrated(<<m>>, Hydration.hydrated))] >>
  /\ HydrateStays

\* hydrateComponents(): the query, then hydrateMarker of the first marker up
\* to the await of the import
HydrateComponents ==
  /\ Len(Hydration.tasks) < MaxTasks
  /\ hyd' = << [Hydration EXCEPT !.tasks =
                  Append(@, Unhydrated(QueryMarkers(Hydration.hydrated),
                                       Hydration.hydrated))] >>
  /\ HydrateStays

\* the import of task t resolves: hydrateClientComponent(marker), then the
\* flag; or it rejects and the error is logged.  A scan goes on with its
\* next marker.
ModuleImported(t, fails) ==
  /\ t \in DOMAIN Hydration.tasks /\ Hydration.tasks[t] /= << >>
  /\ LET m == Head(Hydration.tasks[t])
         hydrated == IF fails THEN Hydration.hydrated
                     ELSE [Hydration.hydrated EXCEPT ![m] = TRUE]
     IN hyd' = << [Hydration EXCEPT
                     !.hydrated = hydrated,
                     !.invoked[m] = IF fails THEN @ ELSE @ + 1,
                     !.tasks[t] = Unhydrated(Tail(Hydration.tasks[t]), hydrated)] >>
  /\ HydrateStays

NextHydrate ==
  \/ \E m \in MarkerIds : ObserverCallback(m)
  \/ HydrateComponents
  \/ \E t \in 1..MaxTasks, fails \in BOOLEAN : ModuleImported(t, fails)

SpecHydrate == Init /\ [][NextHydrate]_vars

\* C38: hydrateClientComponent is invoked at most once for a marker, also
\* when the observer callback and a scan reach the marker before the import
\* of the first of them has resolved.
C38_HydratedOnce ==
  \A m \in MarkerIds : Hydration.invoked[m] <= 1

(***************************************************************************)
(* Layout renderer (src/.app/client/services/layouts.js, 22-207) as        *)
(* renderPage uses it (src/unnamed/part_015, 64-89).  routeLayouts lists   *)
(* the layouts of a route from the outermost to the innermost              *)
(* (_routes.js, 166).  A node is the sequence of the layouts nested in it, *)
(* outermost first, with the page last: <<"layout", "static", "p">> is     *)
(* layout(static(p)).  renderedLayouts is the set of cached names; the     *)
(* children of a cached layout are what follows its name in the document.  *)
(***************************************************************************)
MaxRenders == 4   \* client-rendered navigations

RouteLayouts ==
  { <<"layout">>, <<"layout", "static">>, <<"layout", "static", "deep">>,
    <<"layout", "static", "deep", "leaf">>, <<"layout", "other">> }
PageNodes == {"p", "q", "r"}

Layouts ==
  IF layouts = << >>
  THEN [renderedLayouts |-> {}, dom |-> << >>, route |-> << >>, page |-> "", renders |-> 0]
  ELSE layouts[1]

ToReversed(s) == [i \in DOMAIN s |-> s[Len(s) + 1 - i]]
\* findIndex, 1-based; 0 for -1
FindIndex(s, name) ==
  IF \E i \in DOMAIN s : s[i] = name
  THEN CHOOSE i \in DOMAIN s : s[i] = name /\ \A j \in 1..(i - 1) : s[j] /= name
  ELSE 0

\* cleanNotNeeded
CleanNotNeeded(rendered, routeLayouts) ==
  {name \in rendered : \E i \in DOMAIN routeLayouts : routeLayouts[i] = name}

\* getNearestRendered: the deepest cached layout of the route, "" for null
GetNearestRendered(rendered, routeLayouts) ==
  LET reversed == ToReversed(routeLayouts)
      hits == {i \in DOMAIN reversed : reversed[i] \in rendered} IN
  IF hits = {} THEN ""
  ELSE reversed[CHOOSE i \in hits : \A j \in hits : i <= j]

\* getLayoutsToRender: reversed.slice(0, idx)
GetLayoutsToRender(routeLayouts, nearestRendered) ==
  IF nearestRendered = "" THEN routeLayouts
  ELSE LET reversed == ToReversed(routeLayouts)
           idx == FindIndex(reversed, nearestRendered) IN
       IF idx = 0 THEN routeLayouts ELSE SubSeq(reversed, 1, idx - 1)

RECURSIVE Wrapped(_, _, _)
\* the loop of generate: for (i = modules.length - 1; i >= 0; i--) the
\* layout i takes the node built so far as its children
Wrapped(layoutsToRender, i, node) ==
  IF i = 0 THEN node
  ELSE Wrapped(layoutsToRender, i - 1, <<layoutsToRender[i]>> \o node)

\* generate({ routeLayouts, pageNode }) for a route with layouts
Generate(rendered, routeLayouts, pageNode) ==
  LET kept == CleanNotNeeded(rendered, routeLayouts)
      nearestRendered == GetNearestRendered(kept, routeLayouts)
      layoutsToRender == GetLayoutsToRender(routeLayouts, nearestRendered) IN
  [layoutId |-> nearestRendered,
   node |-> Wrapped(layoutsToRender, Len(layoutsToRender), <<pageNode>>),
   renderedLayouts |-> kept \cup {layoutsToRender[i] : i \in DOMAIN layoutsToRender}]

\* patch(layoutId, node): record.children.replaceWith(node)
Patch(dom, layoutId, node) ==
  LET idx == FindIndex(dom, layoutId) IN
  IF idx = 0 THEN dom ELSE SubSeq(dom, 1, idx) \o node

LayoutsStay == ServerStays /\ UNCHANGED <<mount, ssr, routes, nav, routeCache, hyd>>

\* renderPage({ route, layoutRenderer }) of a client-rendered route
RenderPage(routeLayouts, pageNode) ==
  /\ Layouts.renders < MaxRenders
  /\ LET g == Generate(Layouts.renderedLayouts, routeLayouts, pageNode) IN
     layouts' = << [renderedLayouts |-> g.renderedLayouts,
                    dom |-> IF g.layoutId /= "" THEN Patch(Layouts.dom, g.layoutId, g.node)
                            ELSE g.node,
                    route |-> routeLayouts, page |-> pageNode,
                    renders |-> Layouts.renders + 1] >>
  /\ LayoutsStay

\* a navigation to a server-rendered route: layoutRenderer.reset(), and the
\* server's markup replaces the page
ResetLayouts ==
  /\ Layouts.route /= << >>
  /\ layouts' = << [Layouts EXCEPT !.renderedLayouts = {}, !.dom = << >>,
                                   !.route = << >>, !.page = ""] >>
  /\ LayoutsStay

NextLayouts ==
  \/ \E routeLayouts \in RouteLayouts, pageNode \in PageNodes :
        RenderPage(routeLayouts, pageNode)
  \/ ResetLayouts

SpecLayouts == Init /\ [][NextLayouts]_vars

\* C39: after a client-rendered navigation the document holds the layouts of
\* the route nested in hierarchy order, the outermost first and the
\* innermost directly around the page, whether or not an ancestor layout was
\* already rendered.
C39_HierarchyOrder ==
  Layouts.route /= << >> => Layouts.dom = Layouts.route \o <<Layouts.page>>

====
